---- MODULE Spec2Model ----
(***************************************************************************)
(* Model of the bridge drawing generation of BridgeGAD-04:                 *)
(*   CADUtils.generate_complete_bridge_dxf      (src/cad_utils.py)         *)
(*   EnhancedBridgeDrawer and its builders      (src/bridge_drawer.py)     *)
(*   ParameterManager.load_parameters and                                  *)
(*     validate_parameters                      (src/parameter_manager.py) *)
(*   the upload and button handlers             (src/app.py)               *)
(*                                                                         *)
(* Numbers are exact rationals <<n, d>> (d > 0, lowest terms); the floats   *)
(* inf, -inf and nan are <<1, 0>>, <<-1, 0>> and <<2, 0>>, and <<0, 0>> is  *)
(* a text float()/int() cannot convert.  Arithmetic follows Python's on the *)
(* non-finite floats and is exact on the finite ones: a coordinate is the   *)
(* value the source's formula has over the rationals.  Where the source     *)
(* decides on a computed float or prints one (validate_parameters'          *)
(* length check, draw_grid's loops and labels) the model follows the 53-bit *)
(* rounding of binary64.  A float division by zero raises.                  *)
(* Strings that the code parses (options['scale']) are sequences of one-   *)
(* character strings; a drawn text is a sequence of string chunks.         *)
(***************************************************************************)
EXTENDS Integers, Sequences, FiniteSets, TLC

\* ---------------------------------------------------------------- bounds
\* Largest span count of the enumerated parameter sets.
MaxSpan == 3
\* Largest number of library calls (ezdxf, file system) that fail in one call.
MaxFaults == 1

\* ------------------------------------------------------------- arithmetic
Abs(x) == IF x < 0 THEN -x ELSE x

RECURSIVE Gcd(_, _)
Gcd(a, b) == IF b = 0 THEN a ELSE Gcd(b, a % b)

\* n/d in lowest terms with a positive denominator (d # 0).
Rat(n, d) ==
    LET g == Gcd(Abs(n), Abs(d))
        s == IF d < 0 THEN -1 ELSE 1
    IN  <<(s * n) \div g, (s * d) \div g>>

R(n) == <<n, 1>>
\* A text that float() and int() refuse (ValueError).
NaN == <<0, 0>>
\* float('inf'), float('-inf'), float('nan')
PosInf == <<1, 0>>
NegInf == <<-1, 0>>
NotANumber == <<2, 0>>

\* A finite number.
IsNum(x) == x[2] # 0
\* float(x) succeeds: a number or a non-finite float.
IsFloat(x) == x # NaN
IsNan(x) == x = NotANumber
IsInf(x) == x = PosInf \/ x = NegInf
IsZero(x) == x[2] # 0 /\ x[1] = 0
\* The sign of a number or an infinity.
Sgn(x) == IF x[1] > 0 THEN 1 ELSE IF x[1] < 0 THEN -1 ELSE 0
InfOf(s) == IF s < 0 THEN NegInf ELSE PosInf

\* -x
Neg(x) == IF IsNan(x) THEN x ELSE <<-x[1], x[2]>>
\* x + y: inf + -inf is nan.
Add(x, y) ==
    IF IsNan(x) \/ IsNan(y) THEN NotANumber
    ELSE IF IsInf(x) THEN (IF IsInf(y) /\ y # x THEN NotANumber ELSE x)
    ELSE IF IsInf(y) THEN y
    ELSE Rat(x[1] * y[2] + y[1] * x[2], x[2] * y[2])
\* x - y
Sub(x, y) == Add(x, Neg(y))
\* x * y: inf * 0 is nan.
Mul(x, y) ==
    IF IsNan(x) \/ IsNan(y) THEN NotANumber
    ELSE IF IsInf(x) \/ IsInf(y)
         THEN (IF Sgn(x) * Sgn(y) = 0 THEN NotANumber ELSE InfOf(Sgn(x) * Sgn(y)))
    ELSE Rat(x[1] * y[1], x[2] * y[2])
\* x / y for y # 0 (the callers raise ZeroDivisionError before using it on
\* 0): inf / inf is nan, a number over an infinity is 0.
Div(x, y) ==
    IF IsNan(x) \/ IsNan(y) THEN NotANumber
    ELSE IF IsInf(x)
         THEN (IF IsInf(y) THEN NotANumber ELSE InfOf(Sgn(x) * Sgn(y)))
    ELSE IF IsInf(y) THEN R(0)
    ELSE Rat(x[1] * y[2], x[2] * y[1])
\* x < y: false whenever a side is nan.
Less(x, y) ==
    IF IsNan(x) \/ IsNan(y) THEN FALSE
    ELSE IF IsInf(x) \/ IsInf(y)
         THEN (x = NegInf /\ y # NegInf) \/ (y = PosInf /\ x # PosInf)
    ELSE x[1] * y[2] < y[1] * x[2]
\* x <= y: false whenever a side is nan.
Leq(x, y) == ~IsNan(x) /\ ~IsNan(y) /\ ~Less(y, x)
\* abs(x)
AbsR(x) == IF IsNan(x) THEN x ELSE <<Abs(x[1]), x[2]>>

\* int(x) for a finite x: truncation toward zero.
ToInt(x) == IF x[1] >= 0 THEN x[1] \div x[2] ELSE -((-x[1]) \div x[2])
\* The exception int(x) raises, or "none": a text and nan are a ValueError,
\* an infinity is an OverflowError.
IntRaises(x) ==
    IF x = NaN \/ IsNan(x) THEN "ValueError"
    ELSE IF IsInf(x) THEN "OverflowError"
    ELSE "none"

RECURSIVE Pow10(_)
Pow10(n) == IF n = 0 THEN 1 ELSE 10 * Pow10(n - 1)

\* ------------------------------------------------ binary floating point
\* Python's float is the IEEE 754 binary64 format.  Where the source decides
\* on a computed float (a comparison) or prints one, the model follows the
\* 53-bit rounding: naturals of any size are sequences of limbs below Base,
\* least significant first, without a leading zero limb.
\* The width of a limb in bits: any width whose square fits one of TLC's
\* integers gives the same floats.
LimbBits == 10

RECURSIVE Pow2(_)
Pow2(n) == IF n = 0 THEN 1 ELSE 2 * Pow2(n - 1)
Base == Pow2(LimbBits)

RECURSIVE BigNorm(_)
BigNorm(a) ==
    IF a # <<>> /\ a[Len(a)] = 0 THEN BigNorm(SubSeq(a, 1, Len(a) - 1)) ELSE a
RECURSIVE BigOf(_)
BigOf(n) == IF n = 0 THEN <<>> ELSE <<n % Base>> \o BigOf(n \div Base)
\* The integer a stands for (below 2^31).
RECURSIVE BigToInt(_)
BigToInt(a) == IF a = <<>> THEN 0 ELSE a[1] + Base * BigToInt(Tail(a))
Limb(a, k) == IF k <= Len(a) THEN a[k] ELSE 0

RECURSIVE BigAddFrom(_, _, _, _)
BigAddFrom(a, b, k, carry) ==
    IF k > Len(a) /\ k > Len(b) THEN (IF carry = 0 THEN <<>> ELSE <<carry>>)
    ELSE LET s == Limb(a, k) + Limb(b, k) + carry
         IN  <<s % Base>> \o BigAddFrom(a, b, k + 1, s \div Base)
BigAdd(a, b) == BigAddFrom(a, b, 1, 0)

\* a - b for a >= b
RECURSIVE BigSubFrom(_, _, _, _)
BigSubFrom(a, b, k, borrow) ==
    IF k > Len(a) THEN <<>>
    ELSE LET d == a[k] - Limb(b, k) - borrow
         IN  IF d < 0 THEN <<d + Base>> \o BigSubFrom(a, b, k + 1, 1)
             ELSE <<d>> \o BigSubFrom(a, b, k + 1, 0)
BigSub(a, b) == BigNorm(BigSubFrom(a, b, 1, 0))

\* -1, 0 or 1 as a is below, equal to or above b
RECURSIVE BigCmpFrom(_, _, _)
BigCmpFrom(a, b, k) ==
    IF k = 0 THEN 0
    ELSE IF a[k] < b[k] THEN -1
    ELSE IF a[k] > b[k] THEN 1
    ELSE BigCmpFrom(a, b, k - 1)
BigCmp(a, b) ==
    IF Len(a) < Len(b) THEN -1
    ELSE IF Len(a) > Len(b) THEN 1
    ELSE BigCmpFrom(a, b, Len(a))

\* a * k for 0 <= k < 2^21
RECURSIVE BigMulSmallFrom(_, _, _, _)
BigMulSmallFrom(a, k, j, carry) ==
    IF j > Len(a) THEN BigOf(carry)
    ELSE LET s == a[j] * k + carry
         IN  <<s % Base>> \o BigMulSmallFrom(a, k, j + 1, s \div Base)
BigMulSmall(a, k) == IF k = 0 THEN <<>> ELSE BigMulSmallFrom(a, k, 1, 0)

RECURSIVE BigMul(_, _)
BigMul(a, b) ==
    IF a = <<>> \/ b = <<>> THEN <<>>
    ELSE BigNorm(BigAdd(BigMulSmall(a, b[1]), <<0>> \o BigMul(a, Tail(b))))

\* a * 2^s
BigShl(a, s) ==
    IF a = <<>> THEN <<>>
    ELSE [k \in 1 .. (s \div LimbBits) |-> 0]
         \o BigMulSmall(a, Pow2(s % LimbBits))

\* <<a div d, a mod d>> for 0 < d < 2^21, from the most significant limb
RECURSIVE BigDivSmallFrom(_, _, _, _, _)
BigDivSmallFrom(a, d, k, rem, q) ==
    IF k = 0 THEN <<BigNorm(q), rem>>
    ELSE BigDivSmallFrom(a, d, k - 1, (rem * Base + a[k]) % d,
                         <<(rem * Base + a[k]) \div d>> \o q)
BigDivSmall(a, d) == BigDivSmallFrom(a, d, Len(a), 0, <<>>)

\* a div 2^s
BigShr(a, s) ==
    LET drop == s \div LimbBits IN
    IF drop >= Len(a) THEN <<>>
    ELSE BigDivSmall(SubSeq(a, drop + 1, Len(a)), Pow2(s % LimbBits))[1]

RECURSIVE IntBitLen(_)
IntBitLen(n) == IF n = 0 THEN 0 ELSE 1 + IntBitLen(n \div 2)
BitLen(a) ==
    IF a = <<>> THEN 0 ELSE LimbBits * (Len(a) - 1) + IntBitLen(a[Len(a)])
BigOdd(a) == a # <<>> /\ a[1] % 2 = 1

\* The same for 2^21 <= d < 2^30, one bit of a limb at a time: <<quotient
\* limb, remainder>> of rem * Base + limb.
RECURSIVE DivLimbFrom(_, _, _, _, _)
DivLimbFrom(limb, d, bit, rem, q) ==
    IF bit = 0 THEN <<q, rem>>
    ELSE LET cur == 2 * rem + ((limb \div Pow2(bit - 1)) % 2)
         IN  IF cur >= d THEN DivLimbFrom(limb, d, bit - 1, cur - d, 2 * q + 1)
             ELSE DivLimbFrom(limb, d, bit - 1, cur, 2 * q)
RECURSIVE BigDivLargeFrom(_, _, _, _, _)
BigDivLargeFrom(a, d, k, rem, q) ==
    IF k = 0 THEN <<BigNorm(q), rem>>
    ELSE LET r == DivLimbFrom(a[k], d, LimbBits, rem, 0)
         IN  BigDivLargeFrom(a, d, k - 1, r[2], <<r[1]>> \o q)
\* <<a div d, a mod d # 0>> for 0 < d < 2^30
BigDivInt(a, d) ==
    LET r == IF d < 2097152 THEN BigDivSmall(a, d)
             ELSE BigDivLargeFrom(a, d, Len(a), 0, <<>>)
    IN  <<r[1], r[2] # 0>>

\* A finite float: (-1)^neg * m * 2^e with m = 0 or 2^52 <= m < 2^53.
Dbl(neg, m, e) == [neg |-> neg, m |-> m, e |-> e]
DZero == Dbl(FALSE, <<>>, 0)

\* The float nearest to (m + f) * 2^e, 0 <= f < 1, where sticky says f > 0
\* (then m has more than 54 bits); ties go to the even mantissa.
DRound(neg, m, e, sticky) ==
    LET len == BitLen(m) IN
    IF m = <<>> THEN DZero
    ELSE IF len <= 53 THEN Dbl(neg, BigShl(m, 53 - len), e - (53 - len))
    ELSE LET k == len - 53
             q == BigShr(m, k)
             r == BigSub(m, BigShl(q, k))
             c == BigCmp(r, BigShl(<<1>>, k - 1))
             up == c > 0 \/ (c = 0 /\ (sticky \/ BigOdd(q)))
             q1 == IF up THEN BigAdd(q, <<1>>) ELSE q
         IN  IF BitLen(q1) = 54 THEN Dbl(neg, BigShr(q1, 1), e + k + 1)
             ELSE Dbl(neg, q1, e + k)

\* float(x) for a rational x = <<n, d>>
DOf(x) ==
    LET a == BigOf(Abs(x[1]))
        s == 55 + IntBitLen(x[2])
        qr == BigDivInt(BigShl(a, s), x[2])
    IN  DRound(x[1] < 0, qr[1], -s, qr[2])

DNeg(x) == IF x.m = <<>> THEN x ELSE [x EXCEPT !.neg = ~x.neg]
DAbs(x) == [x EXCEPT !.neg = FALSE]

\* x * y, rounded
DMul(x, y) == DRound(x.neg # y.neg, BigMul(x.m, y.m), x.e + y.e, FALSE)

\* x + y, rounded
DAdd(x, y) ==
    IF x.m = <<>> THEN y
    ELSE IF y.m = <<>> THEN x
    ELSE LET e == IF x.e < y.e THEN x.e ELSE y.e
             a == BigShl(x.m, x.e - e)
             b == BigShl(y.m, y.e - e)
             c == BigCmp(a, b)
         IN  IF x.neg = y.neg THEN DRound(x.neg, BigAdd(a, b), e, FALSE)
             ELSE IF c = 0 THEN DZero
             ELSE IF c > 0 THEN DRound(x.neg, BigSub(a, b), e, FALSE)
             ELSE DRound(y.neg, BigSub(b, a), e, FALSE)
DSub(x, y) == DAdd(x, DNeg(y))

\* x < y
DLess(x, y) ==
    LET d == DSub(x, y) IN d.m # <<>> /\ d.neg
DLeq(x, y) == ~DLess(y, x)

\* round(x * 10^places) as <<negative, integer>>, ties to even: the digits
\* format(x, '.<places>f') prints (the integer must be below 2^31).
DScaledRound(x, places) ==
    LET m == BigMulSmall(x.m, Pow10(places)) IN
    IF x.e >= 0 THEN <<x.neg, BigToInt(BigShl(m, x.e))>>
    ELSE LET k == -x.e
             q == BigShr(m, k)
             r == BigSub(m, BigShl(q, k))
             c == BigCmp(r, BigShl(<<1>>, k - 1))
             up == c > 0 \/ (c = 0 /\ BigOdd(q))
         IN  <<x.neg, BigToInt(q) + (IF up THEN 1 ELSE 0)>>

\* ------------------------------------------------------------ parameters
\* dict.get(key, default)
Get(p, k, dflt) == IF k \in DOMAIN p THEN p[k] ELSE dflt

\* The parameter table of the application: every key with its default.
DefaultParams ==
    [NSPAN |-> R(3), SPAN1 |-> R(30), LBRIDGE |-> R(90), BRIDGEW |-> R(12),
     SKEW |-> R(0), RTL |-> R(105), DATUM |-> R(100), ABTL |-> R(0),
     DECKT |-> Rat(6, 5), CAPT |-> R(104), CAPB |-> R(102), CAPW |-> Rat(6, 5),
     PIERTW |-> Rat(4, 5), BATTR |-> R(6), PIER_WIDTH |-> R(2),
     FUTRL |-> R(98), FUTD |-> R(1), FUTW |-> Rat(5, 2),
     ABUT_HEIGHT |-> R(6), ABUT_WIDTH |-> Rat(3, 2), FOOT_LENGTH |-> R(8),
     FOOT_THICK |-> Rat(6, 5), APPR_LENGTH |-> R(8), APPR_THICK |-> Rat(3, 10),
     SCALE1 |-> R(100), SCALE2 |-> R(50)]

\* A dict without any key: every builder falls back on its inline defaults.
EmptyDict == [k \in {} |-> NaN]

\* Span counts tried: a negative one, zero, one (no pier) and several.
NSpanSet == (-1) .. MaxSpan
\* Batter ratios tried: zero (division by zero) and the default.
BattrSet == {R(0), R(6)}
\* Foundation depths tried: pier height 102 - 98 - FUTD is 3 or -1.
FutdSet == {R(1), R(5)}
\* Caller-supplied (SCALE1, SCALE2) pairs: ratio 2 and ratio 1.
ScalePairs == {<<R(100), R(50)>>, <<R(100), R(100)>>}

WithSpans(p, n) == [p EXCEPT !.NSPAN = R(n), !.LBRIDGE = R(30 * n)]

\* Parameter sets that vary the pier geometry and the caller's scale pair.
PierParamSets ==
    {[WithSpans(DefaultParams, n) EXCEPT
          !.BATTR = b, !.FUTD = f, !.SCALE1 = sc[1], !.SCALE2 = sc[2]] :
        n \in NSpanSet, b \in BattrSet, f \in FutdSet, sc \in ScalePairs}

\* Parameter sets with a value float() cannot convert, or without any key.
BadParamSets ==
    {[WithSpans(DefaultParams, n) EXCEPT !.RTL = NaN] : n \in {1, 2}}
    \cup {[WithSpans(DefaultParams, 2) EXCEPT !.CAPW = NaN]}
    \cup {EmptyDict}

\* Parameter sets with a float that is not finite: an infinite batter, RTL or
\* skew nan, a span count or a skew that is infinite, a span count nan.
NonFiniteParamSets ==
    {[WithSpans(DefaultParams, 2) EXCEPT !.BATTR = PosInf],
     [WithSpans(DefaultParams, 2) EXCEPT !.RTL = NotANumber],
     [WithSpans(DefaultParams, 2) EXCEPT !.SKEW = NotANumber],
     [WithSpans(DefaultParams, 2) EXCEPT !.SKEW = PosInf],
     [DefaultParams EXCEPT !.NSPAN = PosInf],
     [DefaultParams EXCEPT !.NSPAN = NegInf],
     [DefaultParams EXCEPT !.NSPAN = NotANumber]}

\* Tables as the editor can leave them: the BATTR cell emptied (nan), the
\* NSPAN cell infinite or emptied, one span of 3.1 for a length of 3.
EditedParamSets ==
    {[DefaultParams EXCEPT !.BATTR = NotANumber],
     [DefaultParams EXCEPT !.NSPAN = PosInf],
     [DefaultParams EXCEPT !.NSPAN = NotANumber],
     [DefaultParams EXCEPT !.NSPAN = R(1), !.SPAN1 = Rat(31, 10),
                           !.LBRIDGE = R(3)]}

\* Parameter sets that keep every default and vary the span count only.
SpanParamSets == {WithSpans(DefaultParams, n) : n \in NSpanSet}

\* Left abutment chainages, span lengths and skew angles tried.
AbtlSet == {R(0), R(10), R(20)}
Span1Set == {R(30), R(20)}
SkewSet == {R(0), R(30)}
\* LBRIDGE as the spans give it (ABTL = 0), or a length that disagrees.
LBridgeSet(n, s) == {Mul(R(n), s), R(100)}

\* Parameter sets the user edits in the application's table: every key is
\* present; the span layout, LBRIDGE and the skew vary.
GeometryParamSets ==
    UNION {{[DefaultParams EXCEPT !.NSPAN = R(n), !.ABTL = a, !.SPAN1 = s,
                                  !.LBRIDGE = l, !.SKEW = k] :
               a \in AbtlSet, k \in SkewSet, l \in LBridgeSet(n, s)} :
           n \in 0 .. MaxSpan, s \in Span1Set}

\* Tables whose pier levels lie within the documented ranges: the cap bottom
\* at 102 or 100 over a footing at 98 that is 1 or 3 deep (pier height 3, 1
\* or -1), with batter 6, 3 or 0.
ValidatedPierParamSets ==
    {[WithSpans(DefaultParams, 2) EXCEPT !.CAPB = c, !.FUTD = f, !.BATTR = b] :
        c \in {R(102), R(100)}, f \in {R(1), R(3)}, b \in {R(6), R(3), R(0)}}

\* ------------------------------------------------------------- validation
\* 'min' and 'max' of ParameterManager.parameter_definitions.
ParamMin ==
    [NSPAN |-> R(1), SPAN1 |-> R(3), LBRIDGE |-> R(3), BRIDGEW |-> R(6),
     SKEW |-> R(0), RTL |-> R(90), DATUM |-> R(80), ABTL |-> R(0),
     DECKT |-> Rat(4, 5), CAPT |-> R(90), CAPB |-> R(85), CAPW |-> Rat(4, 5),
     PIERTW |-> Rat(1, 2), BATTR |-> R(3), PIER_WIDTH |-> R(1),
     FUTRL |-> R(80), FUTD |-> Rat(1, 2), FUTW |-> Rat(3, 2),
     ABUT_HEIGHT |-> R(3), ABUT_WIDTH |-> R(1), FOOT_LENGTH |-> R(4),
     FOOT_THICK |-> Rat(4, 5), APPR_LENGTH |-> R(5), APPR_THICK |-> Rat(1, 5),
     SCALE1 |-> R(50), SCALE2 |-> R(25)]
ParamMax ==
    [NSPAN |-> R(51), SPAN1 |-> R(100), LBRIDGE |-> R(1000), BRIDGEW |-> R(30),
     SKEW |-> R(45), RTL |-> R(200), DATUM |-> R(150), ABTL |-> R(100),
     DECKT |-> R(3), CAPT |-> R(200), CAPB |-> R(195), CAPW |-> R(3),
     PIERTW |-> R(2), BATTR |-> R(20), PIER_WIDTH |-> R(5),
     FUTRL |-> R(150), FUTD |-> R(3), FUTW |-> R(5),
     ABUT_HEIGHT |-> R(15), ABUT_WIDTH |-> R(3), FOOT_LENGTH |-> R(15),
     FOOT_THICK |-> Rat(5, 2), APPR_LENGTH |-> R(15), APPR_THICK |-> Rat(3, 5),
     SCALE1 |-> R(1000), SCALE2 |-> R(200)]

\* required_params of validate_parameters
RequiredParams == {"NSPAN", "SPAN1", "LBRIDGE", "BRIDGEW", "RTL", "DATUM"}

\* The exception of the type conversion of a defined parameter, or "none":
\* int(float(v)) for NSPAN, float(v) for every other one (lines 189-192).
ConvertRaises(k, v) ==
    IF v = NaN THEN "ValueError"
    ELSE IF k = "NSPAN" THEN IntRaises(v)
    ELSE "none"
\* The converted value; a value that does not convert stays as it is.
ConvertValue(k, v) ==
    IF k = "NSPAN" /\ ConvertRaises(k, v) = "none" THEN R(ToInt(v)) ELSE v
\* params[param] = value, for every defined parameter of the dict.
ConvertParams(p) ==
    [k \in DOMAIN p |->
        IF k \in DOMAIN ParamMin THEN ConvertValue(k, p[k]) ELSE p[k]]

\* int(float('inf')) raises OverflowError, which the handler of the type
\* conversion (ValueError, TypeError) does not catch: the outer handler logs
\* "Error validating parameters" and the result is invalid, without warnings
\* (lines 248-254).
ValidateOverflows(p) == "NSPAN" \in DOMAIN p /\ IsInf(p.NSPAN)

\* No "Missing required parameter" and no "cannot be empty" (pd.isna) error.
RequiredOk(p) ==
    /\ RequiredParams \subseteq DOMAIN p
    /\ \A k \in RequiredParams : ~IsNan(p[k])

\* No "must be a <type>", "below minimum" or "above maximum" error; a
\* comparison with nan is false, so that a nan is within every range.
RangesOk(p) ==
    \A k \in DOMAIN p \cap DOMAIN ParamMin :
        /\ ConvertRaises(k, p[k]) = "none"
        /\ ~Less(ConvertValue(k, p[k]), ParamMin[k])
        /\ ~Less(ParamMax[k], ConvertValue(k, p[k]))

\* The conversions of the logical block succeed up to the length check
\* (lines 206-208) and up to the level check (lines 216-217).
LengthsRead(q) ==
    /\ IntRaises(Get(q, "NSPAN", R(1))) = "none"
    /\ IsFloat(Get(q, "SPAN1", R(30)))
    /\ IsFloat(Get(q, "LBRIDGE", R(90)))
LevelsRead(q) ==
    /\ LengthsRead(q)
    /\ IsFloat(Get(q, "RTL", R(105)))
    /\ IsFloat(Get(q, "DATUM", R(100)))
\* ... and those of the pier levels (lines 223-225).
PierLevelsRead(q) ==
    /\ IsFloat(Get(q, "CAPT", R(104)))
    /\ IsFloat(Get(q, "CAPB", R(102)))
    /\ IsFloat(Get(q, "FUTRL", R(98)))

\* The logical validations, on the converted dict, with their own defaults.
LogicOk(p) ==
    LET q == ConvertParams(p)
        nspan == Get(q, "NSPAN", R(1))
        rtl == Get(q, "RTL", R(105))
        datum == Get(q, "DATUM", R(100))
        capt == Get(q, "CAPT", R(104))
        capb == Get(q, "CAPB", R(102))
        futrl == Get(q, "FUTRL", R(98))
    IN  /\ LevelsRead(q)
        /\ ~Leq(rtl, datum)
        /\ ToInt(nspan) > 1 =>
              /\ PierLevelsRead(q)
              /\ ~Leq(capt, capb)
              /\ ~Leq(capb, futrl)

\* abs(nspan * span1 - lbridge) > 0.1 (lines 211-212), in float arithmetic.
LengthMismatch(nspan, span1, lbridge) ==
    IF IsNum(span1) /\ IsNum(lbridge)
    THEN DLess(DOf(Rat(1, 10)),
               DAbs(DSub(DMul(DOf(R(nspan)), DOf(span1)), DOf(lbridge))))
    ELSE Less(Rat(1, 10), AbsR(Sub(Mul(R(nspan), span1), lbridge)))

\* validate_parameters finds a warning: the bridge length differs from
\* NSPAN * SPAN1 by more than 0.1, or (NSPAN > 1) the cap top is not below
\* RTL.  A conversion that fails in the logical block ends the block: the
\* warnings found before it stay.
HasWarnings(p) ==
    LET q == ConvertParams(p)
        nspan == Get(q, "NSPAN", R(1))
    IN  /\ ~ValidateOverflows(p)
        /\ LengthsRead(q)
        /\ \/ LengthMismatch(ToInt(nspan), Get(q, "SPAN1", R(30)),
                             Get(q, "LBRIDGE", R(90)))
           \/ /\ LevelsRead(q)
              /\ ToInt(nspan) > 1
              /\ PierLevelsRead(q)
              /\ Leq(Get(q, "RTL", R(105)), Get(q, "CAPT", R(104)))

\* validate_parameters(params)['valid']
Valid(p) ==
    /\ ~ValidateOverflows(p)
    /\ RequiredOk(p)
    /\ RangesOk(p)
    /\ LogicOk(p)

\* ------------------------------------------------------- load_parameters
\* An uploaded sheet: whether pandas can read two columns from it, and its
\* rows (name -> value of the cell), in the order of the template, NSPAN
\* first.  A cell is a number, an infinity, nan (an empty cell: pd.isna) or
\* NaN (a text float() refuses).  A name is the text of the name cell,
\* stripped: str() of an empty name cell is 'nan', and the row is kept under
\* that key (line 130; pd.isna of a str is false).
Sheet(rows) == [readable |-> TRUE, rows |-> rows]
UnreadableSheet == [readable |-> FALSE, rows |-> EmptyDict]
\* No file has been uploaded (a direct call of the library).
NoUpload == UnreadableSheet
\* The template with every default.
DefaultSheet == Sheet(DefaultParams)
\* The template; two rows only, NSPAN given as 2.5; a text in the BATTR cell;
\* a row with an unknown name and a text; NSPAN = 0; a file pandas cannot
\* read; NSPAN or SPAN1 infinite; the BATTR cell empty; one span of 3.1 for a
\* length of 3; a row whose name cell is empty.
UploadSet ==
    {DefaultSheet,
     Sheet([k \in {"NSPAN", "SPAN1"} |-> IF k = "NSPAN" THEN Rat(5, 2) ELSE R(20)]),
     Sheet([DefaultParams EXCEPT !.BATTR = NaN]),
     Sheet([k \in DOMAIN DefaultParams \cup {"REMARK"} |->
               IF k = "REMARK" THEN NaN ELSE DefaultParams[k]]),
     Sheet([DefaultParams EXCEPT !.NSPAN = R(0)]),
     UnreadableSheet,
     Sheet([DefaultParams EXCEPT !.NSPAN = PosInf]),
     Sheet([DefaultParams EXCEPT !.SPAN1 = PosInf]),
     Sheet([DefaultParams EXCEPT !.BATTR = NotANumber]),
     Sheet([DefaultParams EXCEPT !.NSPAN = R(1), !.SPAN1 = Rat(31, 10),
                                 !.LBRIDGE = R(3)]),
     Sheet([k \in DOMAIN DefaultParams \cup {"nan"} |->
               IF k = "nan" THEN R(5) ELSE DefaultParams[k]])}

\* The rows the loader does not skip (line 134).
RowsRead(rows) == {k \in DOMAIN rows : ~IsNan(rows[k])}
\* int(float('inf')) in the NSPAN row raises OverflowError, which the row's
\* handler (ValueError, TypeError) does not catch: the loader logs and
\* re-raises (lines 164-166).
LoadOverflows(rows) == "NSPAN" \in RowsRead(rows) /\ IsInf(rows.NSPAN)
\* The dict load_parameters returns (lines 128-158): each row converted by its
\* type (int(float(v)) for NSPAN, float(v) otherwise, unknown names float(v)),
\* left as it is when the conversion fails; then the default of every
\* defined parameter that has no row.
LoadedParams(rows) ==
    [k \in RowsRead(rows) \cup DOMAIN DefaultParams |->
        IF k \in RowsRead(rows) THEN ConvertValue(k, rows[k])
        ELSE DefaultParams[k]]
\* Number of "Could not convert parameter" warnings (line 152).
LoadFailures(rows) == Cardinality({k \in RowsRead(rows) : rows[k] = NaN})

\* dict(zip(edited_df['Variable'], edited_df['Value'])): the loaded keys,
\* each with the value typed into the editor, if any, else the loaded one.
EditedTable(loaded, edits) ==
    [k \in DOMAIN loaded |-> IF k \in DOMAIN edits THEN edits[k] ELSE loaded[k]]

\* --------------------------------------------------------------- options
\* default_options of generate_complete_bridge_dxf; date is the clock's day.
DefaultOptions(day) ==
    [scale |-> <<"1", ":", "1", "0", "0">>,
     include_dimensions |-> TRUE,
     include_annotations |-> TRUE,
     include_title_block |-> TRUE,
     project_name |-> "Bridge Project",
     drawing_title |-> "Bridge General Arrangement",
     prepared_by |-> "BridgeGAD Pro",
     date |-> day]

\* "for key, value in default_options.items(): if key not in options: ..."
MergeDefaults(o, d) ==
    [k \in DOMAIN o \cup DOMAIN d |-> IF k \in DOMAIN o THEN o[k] ELSE d[k]]

\* Scale strings "N:M" with two numeric parts and a non-zero first part.
WellFormedScales ==
    {<<"1", ":", "1", "0", "0">>, <<"1", ":", "2", "0", "0">>}
\* 'abc', '1:2:3', 'a:b', '0:100'
MalformedScales ==
    {<<"a", "b", "c">>, <<"1", ":", "2", ":", "3">>, <<"a", ":", "b">>,
     <<"0", ":", "1", "0", "0">>}
ScaleStrings == WellFormedScales \cup MalformedScales
\* Two-part strings in the other spellings float() reads or refuses:
\* '1:2.5', '2:-5', '1:+7', ' 1 : 1e2 ', '1:1_0', '.5:5.', '1:inf',
\* 'nan:1', 'Infinity:inf' (these parse); '0.0:5' (zero first part);
\* '1:1__0', '1:', '1:.', '1:e5', '1:- 5' (not numbers).
FloatSyntaxScales ==
    {<<"1", ":", "2", ".", "5">>, <<"2", ":", "-", "5">>, <<"1", ":", "+", "7">>,
     <<" ", "1", " ", ":", " ", "1", "e", "2", " ">>, <<"1", ":", "1", "_", "0">>,
     <<".", "5", ":", "5", ".">>, <<"1", ":", "i", "n", "f">>,
     <<"n", "a", "n", ":", "1">>,
     <<"I", "n", "f", "i", "n", "i", "t", "y", ":", "i", "n", "f">>,
     <<"0", ".", "0", ":", "5">>,
     <<"1", ":", "1", "_", "_", "0">>, <<"1", ":">>, <<"1", ":", ".">>,
     <<"1", ":", "e", "5">>, <<"1", ":", "-", " ", "5">>}
\* ... and with the blanks and digits outside ASCII: '1:100\r', '1:100\f',
\* '1:100\x0b', '1:100\xa0', '1:100\r\n', '\f1:100', '\u2003 1:5\x85',
\* full-width '1:100', Arabic-Indic '1:12', '1:\uff15.5', '\uff11_0:\uff11e2'
\* (these parse); '\x1c1:100' (a separator float() does not skip),
\* '1:\uff0b5' (a full-width plus sign), '1:\u00b2' (a superscript).
UnicodeScales ==
    {<<"1", ":", "1", "0", "0", "\r">>, <<"1", ":", "1", "0", "0", "\f">>,
     <<"1", ":", "1", "0", "0", "U+000B">>, <<"1", ":", "1", "0", "0", "U+00A0">>,
     <<"1", ":", "1", "0", "0", "\r", "\n">>, <<"\f", "1", ":", "1", "0", "0">>,
     <<"U+2003", " ", "1", ":", "5", "U+0085">>,
     <<"U+FF11", ":", "U+FF11", "U+FF10", "U+FF10">>,
     <<"1", ":", "U+0661", "U+0662">>, <<"1", ":", "U+FF15", ".", "5">>,
     <<"U+FF11", "_", "0", ":", "U+FF11", "e", "2">>,
     <<"U+001C", "1", ":", "1", "0", "0">>, <<"1", ":", "U+FF0B", "5">>,
     <<"1", ":", "U+00B2">>}

\* options = None (or {}): every key comes from default_options.
NoOptions == [k \in {} |-> FALSE]

\* The options dict the application builds (app.py lines 299-308), for a
\* given selection; project name and drawing title are the defaults of the
\* sidebar's text inputs (lines 160-161).
AppOptions(sc, dims, annos, title) ==
    [scale |-> sc,
     include_dimensions |-> dims,
     include_annotations |-> annos,
     include_title_block |-> title,
     project_name |-> "Slab Bridge Project",
     drawing_title |-> "Bridge General Arrangement",
     prepared_by |-> "BridgeGAD Pro",
     date |-> "2025-01-01"]

\* Every toggle on, any scale string; or no options at all.
ScaleOptionSets ==
    {AppOptions(sc, TRUE, TRUE, TRUE) : sc \in ScaleStrings} \cup {NoOptions}
\* Any combination of toggles with a well-formed scale string.
ToggleOptionSets ==
    {AppOptions(sc, d, a, t) :
        sc \in WellFormedScales, d \in BOOLEAN, a \in BOOLEAN, t \in BOOLEAN}

\* ------------------------------------------------- parsing options['scale']
\* str.split(sep) on a sequence of characters.
RECURSIVE SplitFrom(_, _, _, _)
SplitFrom(s, sep, i, cur) ==
    IF i > Len(s) THEN <<cur>>
    ELSE IF s[i] = sep THEN <<cur>> \o SplitFrom(s, sep, i + 1, <<>>)
    ELSE SplitFrom(s, sep, i + 1, Append(cur, s[i]))
Split(s, sep) == SplitFrom(s, sep, 1, <<>>)

\* A character of a parsed string is a one-character string; a character
\* outside printable ASCII other than tab, newline, carriage return and form
\* feed is written by its code point, "U+00A0".
\* The decimal digits of Unicode (category Nd), a script a row, zero first:
\* float() and int() read each as its ASCII digit.
DecimalDigitRows ==
    <<<<"0", "1", "2", "3", "4",
        "5", "6", "7", "8", "9">>,
      <<"U+0660", "U+0661", "U+0662", "U+0663", "U+0664",
        "U+0665", "U+0666", "U+0667", "U+0668", "U+0669">>,
      <<"U+06F0", "U+06F1", "U+06F2", "U+06F3", "U+06F4",
        "U+06F5", "U+06F6", "U+06F7", "U+06F8", "U+06F9">>,
      <<"U+07C0", "U+07C1", "U+07C2", "U+07C3", "U+07C4",
        "U+07C5", "U+07C6", "U+07C7", "U+07C8", "U+07C9">>,
      <<"U+0966", "U+0967", "U+0968", "U+0969", "U+096A",
        "U+096B", "U+096C", "U+096D", "U+096E", "U+096F">>,
      <<"U+09E6", "U+09E7", "U+09E8", "U+09E9", "U+09EA",
        "U+09EB", "U+09EC", "U+09ED", "U+09EE", "U+09EF">>,
      <<"U+0A66", "U+0A67", "U+0A68", "U+0A69", "U+0A6A",
        "U+0A6B", "U+0A6C", "U+0A6D", "U+0A6E", "U+0A6F">>,
      <<"U+0AE6", "U+0AE7", "U+0AE8", "U+0AE9", "U+0AEA",
        "U+0AEB", "U+0AEC", "U+0AED", "U+0AEE", "U+0AEF">>,
      <<"U+0B66", "U+0B67", "U+0B68", "U+0B69", "U+0B6A",
        "U+0B6B", "U+0B6C", "U+0B6D", "U+0B6E", "U+0B6F">>,
      <<"U+0BE6", "U+0BE7", "U+0BE8", "U+0BE9", "U+0BEA",
        "U+0BEB", "U+0BEC", "U+0BED", "U+0BEE", "U+0BEF">>,
      <<"U+0C66", "U+0C67", "U+0C68", "U+0C69", "U+0C6A",
        "U+0C6B", "U+0C6C", "U+0C6D", "U+0C6E", "U+0C6F">>,
      <<"U+0CE6", "U+0CE7", "U+0CE8", "U+0CE9", "U+0CEA",
        "U+0CEB", "U+0CEC", "U+0CED", "U+0CEE", "U+0CEF">>,
      <<"U+0D66", "U+0D67", "U+0D68", "U+0D69", "U+0D6A",
        "U+0D6B", "U+0D6C", "U+0D6D", "U+0D6E", "U+0D6F">>,
      <<"U+0DE6", "U+0DE7", "U+0DE8", "U+0DE9", "U+0DEA",
        "U+0DEB", "U+0DEC", "U+0DED", "U+0DEE", "U+0DEF">>,
      <<"U+0E50", "U+0E51", "U+0E52", "U+0E53", "U+0E54",
        "U+0E55", "U+0E56", "U+0E57", "U+0E58", "U+0E59">>,
      <<"U+0ED0", "U+0ED1", "U+0ED2", "U+0ED3", "U+0ED4",
        "U+0ED5", "U+0ED6", "U+0ED7", "U+0ED8", "U+0ED9">>,
      <<"U+0F20", "U+0F21", "U+0F22", "U+0F23", "U+0F24",
        "U+0F25", "U+0F26", "U+0F27", "U+0F28", "U+0F29">>,
      <<"U+1040", "U+1041", "U+1042", "U+1043", "U+1044",
        "U+1045", "U+1046", "U+1047", "U+1048", "U+1049">>,
      <<"U+1090", "U+1091", "U+1092", "U+1093", "U+1094",
        "U+1095", "U+1096", "U+1097", "U+1098", "U+1099">>,
      <<"U+17E0", "U+17E1", "U+17E2", "U+17E3", "U+17E4",
        "U+17E5", "U+17E6", "U+17E7", "U+17E8", "U+17E9">>,
      <<"U+1810", "U+1811", "U+1812", "U+1813", "U+1814",
        "U+1815", "U+1816", "U+1817", "U+1818", "U+1819">>,
      <<"U+1946", "U+1947", "U+1948", "U+1949", "U+194A",
        "U+194B", "U+194C", "U+194D", "U+194E", "U+194F">>,
      <<"U+19D0", "U+19D1", "U+19D2", "U+19D3", "U+19D4",
        "U+19D5", "U+19D6", "U+19D7", "U+19D8", "U+19D9">>,
      <<"U+1A80", "U+1A81", "U+1A82", "U+1A83", "U+1A84",
        "U+1A85", "U+1A86", "U+1A87", "U+1A88", "U+1A89">>,
      <<"U+1A90", "U+1A91", "U+1A92", "U+1A93", "U+1A94",
        "U+1A95", "U+1A96", "U+1A97", "U+1A98", "U+1A99">>,
      <<"U+1B50", "U+1B51", "U+1B52", "U+1B53", "U+1B54",
        "U+1B55", "U+1B56", "U+1B57", "U+1B58", "U+1B59">>,
      <<"U+1BB0", "U+1BB1", "U+1BB2", "U+1BB3", "U+1BB4",
        "U+1BB5", "U+1BB6", "U+1BB7", "U+1BB8", "U+1BB9">>,
      <<"U+1C40", "U+1C41", "U+1C42", "U+1C43", "U+1C44",
        "U+1C45", "U+1C46", "U+1C47", "U+1C48", "U+1C49">>,
      <<"U+1C50", "U+1C51", "U+1C52", "U+1C53", "U+1C54",
        "U+1C55", "U+1C56", "U+1C57", "U+1C58", "U+1C59">>,
      <<"U+A620", "U+A621", "U+A622", "U+A623", "U+A624",
        "U+A625", "U+A626", "U+A627", "U+A628", "U+A629">>,
      <<"U+A8D0", "U+A8D1", "U+A8D2", "U+A8D3", "U+A8D4",
        "U+A8D5", "U+A8D6", "U+A8D7", "U+A8D8", "U+A8D9">>,
      <<"U+A900", "U+A901", "U+A902", "U+A903", "U+A904",
        "U+A905", "U+A906", "U+A907", "U+A908", "U+A909">>,
      <<"U+A9D0", "U+A9D1", "U+A9D2", "U+A9D3", "U+A9D4",
        "U+A9D5", "U+A9D6", "U+A9D7", "U+A9D8", "U+A9D9">>,
      <<"U+A9F0", "U+A9F1", "U+A9F2", "U+A9F3", "U+A9F4",
        "U+A9F5", "U+A9F6", "U+A9F7", "U+A9F8", "U+A9F9">>,
      <<"U+AA50", "U+AA51", "U+AA52", "U+AA53", "U+AA54",
        "U+AA55", "U+AA56", "U+AA57", "U+AA58", "U+AA59">>,
      <<"U+ABF0", "U+ABF1", "U+ABF2", "U+ABF3", "U+ABF4",
        "U+ABF5", "U+ABF6", "U+ABF7", "U+ABF8", "U+ABF9">>,
      <<"U+FF10", "U+FF11", "U+FF12", "U+FF13", "U+FF14",
        "U+FF15", "U+FF16", "U+FF17", "U+FF18", "U+FF19">>,
      <<"U+104A0", "U+104A1", "U+104A2", "U+104A3", "U+104A4",
        "U+104A5", "U+104A6", "U+104A7", "U+104A8", "U+104A9">>,
      <<"U+10D30", "U+10D31", "U+10D32", "U+10D33", "U+10D34",
        "U+10D35", "U+10D36", "U+10D37", "U+10D38", "U+10D39">>,
      <<"U+11066", "U+11067", "U+11068", "U+11069", "U+1106A",
        "U+1106B", "U+1106C", "U+1106D", "U+1106E", "U+1106F">>,
      <<"U+110F0", "U+110F1", "U+110F2", "U+110F3", "U+110F4",
        "U+110F5", "U+110F6", "U+110F7", "U+110F8", "U+110F9">>,
      <<"U+11136", "U+11137", "U+11138", "U+11139", "U+1113A",
        "U+1113B", "U+1113C", "U+1113D", "U+1113E", "U+1113F">>,
      <<"U+111D0", "U+111D1", "U+111D2", "U+111D3", "U+111D4",
        "U+111D5", "U+111D6", "U+111D7", "U+111D8", "U+111D9">>,
      <<"U+112F0", "U+112F1", "U+112F2", "U+112F3", "U+112F4",
        "U+112F5", "U+112F6", "U+112F7", "U+112F8", "U+112F9">>,
      <<"U+11450", "U+11451", "U+11452", "U+11453", "U+11454",
        "U+11455", "U+11456", "U+11457", "U+11458", "U+11459">>,
      <<"U+114D0", "U+114D1", "U+114D2", "U+114D3", "U+114D4",
        "U+114D5", "U+114D6", "U+114D7", "U+114D8", "U+114D9">>,
      <<"U+11650", "U+11651", "U+11652", "U+11653", "U+11654",
        "U+11655", "U+11656", "U+11657", "U+11658", "U+11659">>,
      <<"U+116C0", "U+116C1", "U+116C2", "U+116C3", "U+116C4",
        "U+116C5", "U+116C6", "U+116C7", "U+116C8", "U+116C9">>,
      <<"U+11730", "U+11731", "U+11732", "U+11733", "U+11734",
        "U+11735", "U+11736", "U+11737", "U+11738", "U+11739">>,
      <<"U+118E0", "U+118E1", "U+118E2", "U+118E3", "U+118E4",
        "U+118E5", "U+118E6", "U+118E7", "U+118E8", "U+118E9">>,
      <<"U+11950", "U+11951", "U+11952", "U+11953", "U+11954",
        "U+11955", "U+11956", "U+11957", "U+11958", "U+11959">>,
      <<"U+11C50", "U+11C51", "U+11C52", "U+11C53", "U+11C54",
        "U+11C55", "U+11C56", "U+11C57", "U+11C58", "U+11C59">>,
      <<"U+11D50", "U+11D51", "U+11D52", "U+11D53", "U+11D54",
        "U+11D55", "U+11D56", "U+11D57", "U+11D58", "U+11D59">>,
      <<"U+11DA0", "U+11DA1", "U+11DA2", "U+11DA3", "U+11DA4",
        "U+11DA5", "U+11DA6", "U+11DA7", "U+11DA8", "U+11DA9">>,
      <<"U+16A60", "U+16A61", "U+16A62", "U+16A63", "U+16A64",
        "U+16A65", "U+16A66", "U+16A67", "U+16A68", "U+16A69">>,
      <<"U+16AC0", "U+16AC1", "U+16AC2", "U+16AC3", "U+16AC4",
        "U+16AC5", "U+16AC6", "U+16AC7", "U+16AC8", "U+16AC9">>,
      <<"U+16B50", "U+16B51", "U+16B52", "U+16B53", "U+16B54",
        "U+16B55", "U+16B56", "U+16B57", "U+16B58", "U+16B59">>,
      <<"U+1D7CE", "U+1D7CF", "U+1D7D0", "U+1D7D1", "U+1D7D2",
        "U+1D7D3", "U+1D7D4", "U+1D7D5", "U+1D7D6", "U+1D7D7">>,
      <<"U+1D7D8", "U+1D7D9", "U+1D7DA", "U+1D7DB", "U+1D7DC",
        "U+1D7DD", "U+1D7DE", "U+1D7DF", "U+1D7E0", "U+1D7E1">>,
      <<"U+1D7E2", "U+1D7E3", "U+1D7E4", "U+1D7E5", "U+1D7E6",
        "U+1D7E7", "U+1D7E8", "U+1D7E9", "U+1D7EA", "U+1D7EB">>,
      <<"U+1D7EC", "U+1D7ED", "U+1D7EE", "U+1D7EF", "U+1D7F0",
        "U+1D7F1", "U+1D7F2", "U+1D7F3", "U+1D7F4", "U+1D7F5">>,
      <<"U+1D7F6", "U+1D7F7", "U+1D7F8", "U+1D7F9", "U+1D7FA",
        "U+1D7FB", "U+1D7FC", "U+1D7FD", "U+1D7FE", "U+1D7FF">>,
      <<"U+1E140", "U+1E141", "U+1E142", "U+1E143", "U+1E144",
        "U+1E145", "U+1E146", "U+1E147", "U+1E148", "U+1E149">>,
      <<"U+1E2F0", "U+1E2F1", "U+1E2F2", "U+1E2F3", "U+1E2F4",
        "U+1E2F5", "U+1E2F6", "U+1E2F7", "U+1E2F8", "U+1E2F9">>,
      <<"U+1E950", "U+1E951", "U+1E952", "U+1E953", "U+1E954",
        "U+1E955", "U+1E956", "U+1E957", "U+1E958", "U+1E959">>,
      <<"U+1FBF0", "U+1FBF1", "U+1FBF2", "U+1FBF3", "U+1FBF4",
        "U+1FBF5", "U+1FBF6", "U+1FBF7", "U+1FBF8", "U+1FBF9">>>>
Digits ==
    UNION {{DecimalDigitRows[r][j] : j \in 1 .. 10} :
              r \in 1 .. Len(DecimalDigitRows)}
DigitVal(c) ==
    (CHOOSE j \in 1 .. 10 :
         \E r \in 1 .. Len(DecimalDigitRows) : DecimalDigitRows[r][j] = c) - 1

RECURSIVE DigitsValue(_)
DigitsValue(cs) ==
    IF cs = <<>> THEN 0
    ELSE 10 * DigitsValue(SubSeq(cs, 1, Len(cs) - 1)) + DigitVal(cs[Len(cs)])

\* The characters float() skips at both ends of a string (str.isspace).
Blanks ==
    {"\t", "\n", "U+000B", "\f", "\r", " ", "U+0085", "U+00A0", "U+1680",
     "U+2000", "U+2001", "U+2002", "U+2003", "U+2004", "U+2005", "U+2006",
     "U+2007", "U+2008", "U+2009", "U+200A", "U+2028", "U+2029", "U+202F",
     "U+205F", "U+3000"}
RECURSIVE LStrip(_)
LStrip(cs) == IF cs # <<>> /\ cs[1] \in Blanks THEN LStrip(Tail(cs)) ELSE cs
RECURSIVE RStrip(_)
RStrip(cs) ==
    IF cs # <<>> /\ cs[Len(cs)] \in Blanks
    THEN RStrip(SubSeq(cs, 1, Len(cs) - 1)) ELSE cs
\* The string without the blanks at its two ends.
Strip(cs) == RStrip(LStrip(cs))

\* str.lower() on the letters of 'inf', 'infinity' and 'nan'.
LowerOf(c) ==
    CASE c = "I" -> "i" [] c = "N" -> "n" [] c = "F" -> "f" [] c = "T" -> "t"
      [] c = "Y" -> "y" [] c = "A" -> "a" [] OTHER -> c
Lower(cs) == [k \in 1 .. Len(cs) |-> LowerOf(cs[k])]

\* digit (["_"] digit)*: digits with single underscores between them.
IsDigitPart(cs) ==
    /\ cs # <<>>
    /\ \A k \in 1 .. Len(cs) :
           \/ cs[k] \in Digits
           \/ /\ cs[k] = "_" /\ k > 1 /\ k < Len(cs)
              /\ cs[k - 1] \in Digits /\ cs[k + 1] \in Digits
DigitsOf(cs) == SelectSeq(cs, LAMBDA c : c \in Digits)

\* Index of the first character of cs that is in S, 0 when there is none.
IndexOf(cs, S) ==
    IF \E k \in 1 .. Len(cs) : cs[k] \in S
    THEN CHOOSE k \in 1 .. Len(cs) :
             cs[k] \in S /\ \A j \in 1 .. (k - 1) : cs[j] \notin S
    ELSE 0

\* The mantissa of a float literal: digitpart ["." [digitpart]] | "." digitpart
MantissaOk(m) ==
    LET parts == Split(m, ".") IN
    \/ Len(parts) = 1 /\ IsDigitPart(parts[1])
    \/ /\ Len(parts) = 2
       /\ parts[1] = <<>> \/ IsDigitPart(parts[1])
       /\ parts[2] = <<>> \/ IsDigitPart(parts[2])
       /\ parts[1] # <<>> \/ parts[2] # <<>>
MantissaValue(m) ==
    LET parts == Split(m, ".")
        frac == IF Len(parts) = 2 THEN DigitsOf(parts[2]) ELSE <<>>
    IN  Rat(DigitsValue(DigitsOf(parts[1]) \o frac), Pow10(Len(frac)))
\* The exponent after 'e' or 'E': ["+" | "-"] digitpart
ExponentOk(e) ==
    IsDigitPart(IF e # <<>> /\ e[1] \in {"+", "-"} THEN Tail(e) ELSE e)
ExponentValue(e) ==
    IF e[1] = "-" THEN -DigitsValue(DigitsOf(e)) ELSE DigitsValue(DigitsOf(e))
\* x * 10^e
Scale10(x, e) ==
    IF e >= 0 THEN Mul(x, R(Pow10(e))) ELSE Div(x, R(Pow10(-e)))

\* float() of a literal without sign or surrounding blanks.
UnsignedFloat(u) ==
    LET k == IndexOf(u, {"e", "E"}) IN
    IF Lower(u) \in {<<"i", "n", "f">>,
                     <<"i", "n", "f", "i", "n", "i", "t", "y">>} THEN PosInf
    ELSE IF Lower(u) = <<"n", "a", "n">> THEN NotANumber
    ELSE IF k = 0 THEN (IF MantissaOk(u) THEN MantissaValue(u) ELSE NaN)
    ELSE LET m == SubSeq(u, 1, k - 1)
             e == SubSeq(u, k + 1, Len(u))
         IN  IF MantissaOk(m) /\ ExponentOk(e)
             THEN Scale10(MantissaValue(m), ExponentValue(e)) ELSE NaN

\* float(str): blanks stripped, an optional sign, then a decimal literal with
\* optional fraction and exponent, or inf / infinity / nan in any case; any
\* other text is a ValueError (NaN here).  Values are exact, so the literal
\* must fit TLC's integers (about nine significant digits).
ParseFloat(cs) ==
    LET s == Strip(cs)
        signed == s # <<>> /\ s[1] \in {"+", "-"}
        v == UnsignedFloat(IF signed THEN Tail(s) ELSE s)
    IN  IF signed /\ s[1] = "-" THEN Neg(v) ELSE v

\* Lines 49-53 of cad_utils.py: the exception the parse raises, or "none".
\* float(scale_parts[1]) is evaluated before float(scale_parts[0]).
ParseScaleError(sc) ==
    LET parts == Split(sc, ":") IN
    IF Len(parts) # 2 THEN "none"
    ELSE IF ParseFloat(parts[2]) = NaN THEN "ValueError"
    ELSE IF ParseFloat(parts[1]) = NaN THEN "ValueError"
    ELSE IF IsZero(ParseFloat(parts[1])) THEN "ZeroDivisionError"
    ELSE "none"

\* scale_factor when the parse does not raise.
ParseScaleFactor(sc) ==
    LET parts == Split(sc, ":") IN
    IF Len(parts) = 2
    THEN Div(ParseFloat(parts[2]), ParseFloat(parts[1]))
    ELSE R(1)

\* Variant: the caller's SCALE1 and SCALE2 are left as supplied.
UpdateScaleParams_Keep(p) == p

\* params['SCALE1'] = 100.0; params['SCALE2'] = 50.0 (on the caller's dict)
UpdateScaleParams(p) ==
    [k \in DOMAIN p \cup {"SCALE1", "SCALE2"} |->
        IF k = "SCALE1" THEN R(100) ELSE IF k = "SCALE2" THEN R(50) ELSE p[k]]

\* ----------------------------------------------------------------- faults
\* A fault point is one call into the drawing library (or the file system)
\* that raises; idx is the loop index of the call (0 outside a loop).
LoopFaultSites ==
    {"deck_outline", "hatch_add", "hatch_path", "hatch_fill",
     "span_dim_add", "span_dim_render"}
SingleFaultSites ==
    {"deck_dim_add", "deck_dim_render", "abut_dim_add", "abut_dim_render",
     "title_block", "view_labels", "north_arrow", "save"}
FaultPoints ==
    {[site |-> s, idx |-> i] : s \in LoopFaultSites, i \in 0 .. (MaxSpan - 1)}
    \cup {[site |-> s, idx |-> 0] : s \in SingleFaultSites}
\* The sets of at most k fault points.
RECURSIVE FaultSetsUpTo(_)
FaultSetsUpTo(k) ==
    IF k = 0 THEN {{}}
    ELSE LET S == FaultSetsUpTo(k - 1)
         IN  S \cup {s \cup {f} : s \in S, f \in FaultPoints}
FaultSets == FaultSetsUpTo(MaxFaults)

Fails(F, s, i) == [site |-> s, idx |-> i] \in F

\* --------------------------------------------------------------- entities
\* One record shape for every entity of the model space.  by names the
\* builder that appended the entity (bookkeeping, not a DXF attribute);
\* complete is FALSE for a hatch without boundary path or pattern and for a
\* dimension whose render() did not finish.
Entity(kind, layer, by, pts, closed, text, style, complete) ==
    [kind |-> kind, layer |-> layer, by |-> by, pts |-> pts,
     closed |-> closed, text |-> text, style |-> style, complete |-> complete]

Polyline(by, layer, pts, closed) ==
    Entity("LWPOLYLINE", layer, by, pts, closed, <<>>, "", TRUE)
LineEnt(by, layer, p1, p2) ==
    Entity("LINE", layer, by, <<p1, p2>>, FALSE, <<>>, "", TRUE)
HatchEnt(by, pts, complete) ==
    Entity("HATCH", "HATCHING", by, pts, complete, <<>>, "", complete)
TextEnt(by, content, at, style) ==
    Entity("TEXT", "ANNOTATIONS", by, <<at>>, FALSE, content, style, TRUE)
DimEnt(by, base, p1, p2, complete) ==
    Entity("DIMENSION", "DIMENSIONS", by, <<base, p1, p2>>, FALSE, <<>>,
           "PROFESSIONAL", complete)

\* The calls that change an entity the model space already holds:
\* hatch.paths.add_polyline_path(points, is_closed=True) gives the hatch its
\* boundary, hatch.set_pattern_fill("ANSI31", scale=0.5) its pattern, and
\* dim.render() builds the dimension's geometry.
AddPolylinePath(hatch, pts) == [hatch EXCEPT !.pts = pts, !.closed = TRUE]
SetPatternFill(hatch) == [hatch EXCEPT !.complete = TRUE]
Render(dim) == [dim EXCEPT !.complete = TRUE]

\* A log record of logger.warning / logger.error.
LogRec(level, feature) == [level |-> level, feature |-> feature]

\* ------------------------------------------------------ coordinate helpers
\* Variant: the chainage is measured from the left end.
hpos_FromLeft(chainage, left, scale) == Mul(Sub(chainage, left), scale)
\* hpos(chainage, left, scale)
hpos(chainage, left, scale) == Mul(chainage, scale)
\* vpos(level, datum, scale)
vpos(level, datum, scale) == Mul(Sub(level, datum), scale)

\* float(params.get('SCALE1', 100)) / float(params.get('SCALE2', 50))
ScaleOf(p) == Div(Get(p, "SCALE1", R(100)), Get(p, "SCALE2", R(50)))
\* The scale expression raises: float() refuses a value, or SCALE2 is zero.
ScaleRaises(p) ==
    \/ ~IsFloat(Get(p, "SCALE1", R(100)))
    \/ ~IsFloat(Get(p, "SCALE2", R(50)))
    \/ IsZero(Get(p, "SCALE2", R(50)))

\* The inline defaults of the builders' params.get(key, default) calls.
InlineDefaults ==
    [ABTL |-> R(0), SPAN1 |-> R(30), NSPAN |-> R(3), RTL |-> R(105),
     DECKT |-> Rat(6, 5), DATUM |-> R(100), CAPT |-> R(104), CAPB |-> R(102),
     CAPW |-> Rat(6, 5), PIERTW |-> Rat(4, 5), BATTR |-> R(6),
     FUTRL |-> R(98), FUTD |-> R(1), FUTW |-> Rat(5, 2),
     ABUT_HEIGHT |-> R(6), ABUT_WIDTH |-> Rat(3, 2), FOOT_LENGTH |-> R(8),
     FOOT_THICK |-> Rat(6, 5), APPR_LENGTH |-> R(8), APPR_THICK |-> Rat(3, 10),
     LBRIDGE |-> R(100), BRIDGEW |-> R(12), SKEW |-> R(0),
     PIER_WIDTH |-> R(2), SCALE1 |-> R(100), SCALE2 |-> R(50)]

\* float(self.params.get(k, default))
Param(p, k) == Get(p, k, InlineDefaults[k])
\* int(self.params.get('NSPAN', 3))
NSpan(p) == ToInt(Param(p, "NSPAN"))
\* The float()/int() conversions of a builder's parameter block all succeed:
\* float() takes every float, int() takes the finite ones.
ReadsOk(p, keys) ==
    /\ \A k \in keys :
           IF k = "NSPAN" THEN IntRaises(Param(p, k)) = "none"
           ELSE IsFloat(Param(p, k))
    /\ ~ScaleRaises(p)

Pt(x, y) == <<x, y>>
Two == R(2)
Half(x) == Div(x, Two)

\* ------------------------------------------------------------------- deck
ElevationKeys == {"ABTL", "SPAN1", "NSPAN", "RTL", "DECKT", "DATUM"}

\* The exception the parameter block of draw_elevation raises (lines
\* 187-193), or "none": the conversions run in the order abtl, span1, nspan,
\* rtl, deck_thickness, scale, datum and the first that fails ends the block.
ElevationReadError(p) ==
    IF ~IsFloat(Param(p, "ABTL")) \/ ~IsFloat(Param(p, "SPAN1")) THEN "ValueError"
    ELSE IF IntRaises(Param(p, "NSPAN")) # "none" THEN IntRaises(Param(p, "NSPAN"))
    ELSE IF \/ ~IsFloat(Param(p, "RTL")) \/ ~IsFloat(Param(p, "DECKT"))
            \/ ~IsFloat(Param(p, "SCALE1")) \/ ~IsFloat(Param(p, "SCALE2"))
         THEN "ValueError"
    ELSE IF IsZero(Param(p, "SCALE2")) THEN "ZeroDivisionError"
    ELSE IF ~IsFloat(Param(p, "DATUM")) THEN "ValueError"
    ELSE "none"

\* Variant: the deck thickness is taken off unscaled.
DeckPoints_UnscaledThickness(p, i) ==
    LET abtl == Param(p, "ABTL")
        span1 == Param(p, "SPAN1")
        scale == ScaleOf(p)
        datum == Param(p, "DATUM")
        x1 == hpos(Add(abtl, Mul(R(i), span1)), abtl, scale)
        x2 == hpos(Add(abtl, Mul(R(i + 1), span1)), abtl, scale)
        y1 == vpos(Param(p, "RTL"), datum, scale)
        y2 == Sub(y1, Param(p, "DECKT"))
    IN  <<Pt(x1, y1), Pt(x2, y1), Pt(x2, y2), Pt(x1, y2)>>

\* Variant: every segment runs on to the end of the following span.
DeckPoints_Overlap(p, i) ==
    LET abtl == Param(p, "ABTL")
        span1 == Param(p, "SPAN1")
        scale == ScaleOf(p)
        datum == Param(p, "DATUM")
        x1 == hpos(Add(abtl, Mul(R(i), span1)), abtl, scale)
        x2 == hpos(Add(abtl, Mul(R(i + 2), span1)), abtl, scale)
        y1 == vpos(Param(p, "RTL"), datum, scale)
        y2 == vpos(Sub(Param(p, "RTL"), Param(p, "DECKT")), datum, scale)
    IN  <<Pt(x1, y1), Pt(x2, y1), Pt(x2, y2), Pt(x1, y2)>>

\* deck_points of span i (lines 197-208)
DeckPoints(p, i) ==
    LET abtl == Param(p, "ABTL")
        span1 == Param(p, "SPAN1")
        scale == ScaleOf(p)
        datum == Param(p, "DATUM")
        x1 == hpos(Add(abtl, Mul(R(i), span1)), abtl, scale)
        x2 == hpos(Add(abtl, Mul(R(i + 1), span1)), abtl, scale)
        y1 == vpos(Param(p, "RTL"), datum, scale)
        y2 == vpos(Sub(Param(p, "RTL"), Param(p, "DECKT")), datum, scale)
    IN  <<Pt(x1, y1), Pt(x2, y1), Pt(x2, y2), Pt(x1, y2)>>

\* The entities one iteration of the deck loop appends, under faults F
\* (lines 211-218): the outline by add_lwpolyline and, unless add_hatch
\* raises, a hatch that has neither boundary nor pattern yet.
DeckSegmentEntities(p, i, F) ==
    <<Polyline("deck", "STRUCTURE", DeckPoints(p, i), TRUE)>>
    \o (IF Fails(F, "hatch_add", i) THEN <<>>
        ELSE <<HatchEnt("deck", <<>>, FALSE)>>)
\* Where the deck loop continues after iteration i (line 196).
DeckNext(p, i) == IF i + 1 < NSpan(p) THEN "deck" ELSE "piers_begin"

\* ------------------------------------------------------------------ piers
PierKeys ==
    {"NSPAN", "ABTL", "SPAN1", "CAPT", "CAPB", "CAPW", "PIERTW", "BATTR",
     "FUTRL", "FUTD", "FUTW", "DATUM"}

\* Variant: pier i stands at the start of span i, the first at the abutment.
PierCenter_AtSpanStart(p, i) ==
    hpos(Add(Param(p, "ABTL"), Mul(R(i - 1), Param(p, "SPAN1"))),
         Param(p, "ABTL"), ScaleOf(p))

\* x_center of pier i (lines 256-257)
PierCenter(p, i) ==
    hpos(Add(Param(p, "ABTL"), Mul(R(i), Param(p, "SPAN1"))),
         Param(p, "ABTL"), ScaleOf(p))

\* The five-point rectangle the builders write out corner by corner.
Rect(x1, y1, x2, y2) ==
    <<Pt(x1, y1), Pt(x2, y1), Pt(x2, y2), Pt(x1, y2), Pt(x1, y1)>>

\* Variant: the cap width is taken off unscaled.
PierCap_Unscaled(p, i) ==
    LET scale == ScaleOf(p)
        datum == Param(p, "DATUM")
        xc == PierCenter(p, i)
        w == Half(Param(p, "CAPW"))
    IN  Polyline("piers", "STRUCTURE",
                 Rect(Sub(xc, w), vpos(Param(p, "CAPT"), datum, scale),
                      Add(xc, w), vpos(Param(p, "CAPB"), datum, scale)),
                 FALSE)

\* Pier cap (lines 259-271)
PierCap(p, i) ==
    LET scale == ScaleOf(p)
        datum == Param(p, "DATUM")
        xc == PierCenter(p, i)
        w == Half(Mul(Param(p, "CAPW"), scale))
    IN  Polyline("piers", "STRUCTURE",
                 Rect(Sub(xc, w), vpos(Param(p, "CAPT"), datum, scale),
                      Add(xc, w), vpos(Param(p, "CAPB"), datum, scale)),
                 FALSE)

\* pier_height = capb - futrl - futd (line 275)
PierHeight(p) ==
    Sub(Sub(Param(p, "CAPB"), Param(p, "FUTRL")), Param(p, "FUTD"))
\* pier_top_half = piertw * scale / 2 (line 274)
PierTopHalf(p) == Half(Mul(Param(p, "PIERTW"), ScaleOf(p)))
\* Variant: the shaft narrows downwards by pier_height / battr.
PierBottomHalf_Inward(p) ==
    Sub(PierTopHalf(p), Div(PierHeight(p), Param(p, "BATTR")))

\* pier_bottom_half = pier_top_half + pier_height / battr (line 276); the
\* division raises ZeroDivisionError when battr is zero.
PierBottomHalf(p) ==
    Add(PierTopHalf(p), Div(PierHeight(p), Param(p, "BATTR")))
PierShaftRaises(p) == IsZero(Param(p, "BATTR"))

\* The two shaft lines and the footing of pier i (lines 278-307)
PierShaftAndFooting(p, i) ==
    LET scale == ScaleOf(p)
        datum == Param(p, "DATUM")
        xc == PierCenter(p, i)
        y1 == vpos(Param(p, "CAPB"), datum, scale)
        y2 == vpos(Add(Param(p, "FUTRL"), Param(p, "FUTD")), datum, scale)
        top == PierTopHalf(p)
        bot == PierBottomHalf(p)
        fw == Half(Mul(Param(p, "FUTW"), scale))
    IN  <<LineEnt("piers", "STRUCTURE", Pt(Sub(xc, top), y1), Pt(Sub(xc, bot), y2)),
          LineEnt("piers", "STRUCTURE", Pt(Add(xc, top), y1), Pt(Add(xc, bot), y2)),
          Polyline("piers", "STRUCTURE",
                   Rect(Sub(xc, fw), y2, Add(xc, fw),
                        vpos(Param(p, "FUTRL"), datum, scale)),
                   FALSE)>>

\* The entities one iteration of the pier loop appends before it ends or raises.
PierEntities(p, i) ==
    <<PierCap(p, i)>>
    \o (IF PierShaftRaises(p) THEN <<>> ELSE PierShaftAndFooting(p, i))

\* -------------------------------------------------------------- abutments
AbutmentKeys ==
    {"ABTL", "NSPAN", "SPAN1", "RTL", "ABUT_HEIGHT", "ABUT_WIDTH",
     "FOOT_LENGTH", "FOOT_THICK", "DATUM"}

\* Variant: the right end is taken from the LBRIDGE parameter.
SpanBridgeLength_FromParam(p) == Param(p, "LBRIDGE")

\* bridge_length = abtl + nspan * span1 (lines 356, 398)
SpanBridgeLength(p) ==
    Add(Param(p, "ABTL"), Mul(R(NSpan(p)), Param(p, "SPAN1")))

\* Left stem, left footing, right stem, right footing (lines 327-380)
AbutmentEntities(p) ==
    LET abtl == Param(p, "ABTL")
        scale == ScaleOf(p)
        datum == Param(p, "DATUM")
        rtl == Param(p, "RTL")
        ah == Param(p, "ABUT_HEIGHT")
        aw == Param(p, "ABUT_WIDTH")
        fl == Param(p, "FOOT_LENGTH")
        ft == Param(p, "FOOT_THICK")
        bl == SpanBridgeLength(p)
        stem_y1 == vpos(rtl, datum, scale)
        stem_y2 == vpos(Sub(rtl, ah), datum, scale)
        foot_y1 == vpos(Sub(Sub(rtl, ah), ft), datum, scale)
        foot_y2 == vpos(Sub(rtl, ah), datum, scale)
        H(c) == hpos(c, abtl, scale)
    IN  <<Polyline("abutments", "STRUCTURE",
                   Rect(H(Sub(abtl, aw)), stem_y1, H(abtl), stem_y2), FALSE),
          Polyline("abutments", "STRUCTURE",
                   Rect(H(Sub(Sub(abtl, Half(aw)), Half(fl))), foot_y1,
                        H(Add(Sub(abtl, Half(aw)), Half(fl))), foot_y2), FALSE),
          Polyline("abutments", "STRUCTURE",
                   Rect(H(bl), stem_y1, H(Add(bl, aw)), stem_y2), FALSE),
          Polyline("abutments", "STRUCTURE",
                   Rect(H(Sub(Add(bl, Half(aw)), Half(fl))), foot_y1,
                        H(Add(Add(bl, Half(aw)), Half(fl))), foot_y2), FALSE)>>

\* --------------------------------------------------------- approach slabs
ApproachKeys ==
    {"ABTL", "NSPAN", "SPAN1", "RTL", "APPR_LENGTH", "APPR_THICK", "DATUM"}

\* Variant: both slabs lie inside the bridge ends.
ApproachSlabEntities_Inside(p) ==
    LET abtl == Param(p, "ABTL")
        scale == ScaleOf(p)
        datum == Param(p, "DATUM")
        rtl == Param(p, "RTL")
        laslab == Param(p, "APPR_LENGTH")
        bl == SpanBridgeLength(p)
        top == vpos(rtl, datum, scale)
        bottom == vpos(Sub(rtl, Param(p, "APPR_THICK")), datum, scale)
    IN  <<Polyline("approach", "STRUCTURE",
                   Rect(hpos(abtl, abtl, scale), top,
                        hpos(Add(abtl, laslab), abtl, scale), bottom), FALSE),
          Polyline("approach", "STRUCTURE",
                   Rect(hpos(Sub(bl, laslab), abtl, scale), top,
                        hpos(bl, abtl, scale), bottom), FALSE)>>

\* Left and right approach slab (lines 398-417)
ApproachSlabEntities(p) ==
    LET abtl == Param(p, "ABTL")
        scale == ScaleOf(p)
        datum == Param(p, "DATUM")
        rtl == Param(p, "RTL")
        laslab == Param(p, "APPR_LENGTH")
        bl == SpanBridgeLength(p)
        top == vpos(rtl, datum, scale)
        bottom == vpos(Sub(rtl, Param(p, "APPR_THICK")), datum, scale)
    IN  <<Polyline("approach", "STRUCTURE",
                   Rect(hpos(Sub(abtl, laslab), abtl, scale), top,
                        hpos(abtl, abtl, scale), bottom), FALSE),
          Polyline("approach", "STRUCTURE",
                   Rect(hpos(bl, abtl, scale), top,
                        hpos(Add(bl, laslab), abtl, scale), bottom), FALSE)>>

\* ------------------------------------------------------------------- plan
PlanKeys == {"LBRIDGE", "BRIDGEW", "NSPAN", "SPAN1", "SKEW", "ABTL"}

\* PLAN_OFFSET_Y = -100
PLAN_OFFSET_Y == -100
\* Variant: the plan is drawn about y = 0.
PlanY_NoOffset(v) == v
\* "... + PLAN_OFFSET_Y"
PlanY(v) == Add(v, R(PLAN_OFFSET_Y))

\* tan(radians(deg)) for the skew angles the model enumerates, to four
\* decimal places; the tangent of nan is nan, that of an infinity raises.
TanDeg(deg) ==
    CASE deg = R(0) -> R(0)
      [] deg = NotANumber -> NotANumber
      [] deg = R(15) -> Rat(2679, 10000)
      [] deg = R(30) -> Rat(5774, 10000)
      [] deg = R(45) -> R(1)

\* Variant: the offset is taken from the bridge length.
SkewOffset_FromLength(p) == Mul(Param(p, "LBRIDGE"), TanDeg(Param(p, "SKEW")))

\* skew_offset = bridge_width * tan(radians(skew_angle)) (line 440)
SkewOffset(p) == Mul(Param(p, "BRIDGEW"), TanDeg(Param(p, "SKEW")))

\* Variant: the near corners lie a full width from the axis.
SkewedCorners_FullWidth(p, so) ==
    LET bl == Param(p, "LBRIDGE")
        bw == Param(p, "BRIDGEW")
        abtl == Param(p, "ABTL")
        scale == ScaleOf(p)
    IN  <<Pt(hpos(R(0), abtl, scale), PlanY(Mul(Neg(bw), scale))),
          Pt(hpos(bl, abtl, scale), PlanY(Mul(Add(Half(Neg(bw)), so), scale))),
          Pt(hpos(bl, abtl, scale), PlanY(Mul(Add(Half(bw), so), scale))),
          Pt(hpos(R(0), abtl, scale), PlanY(Mul(bw, scale)))>>

\* deck_corners of the skewed branch for skew offset so (lines 441-446)
SkewedCorners(p, so) ==
    LET bl == Param(p, "LBRIDGE")
        bw == Param(p, "BRIDGEW")
        abtl == Param(p, "ABTL")
        scale == ScaleOf(p)
    IN  <<Pt(hpos(R(0), abtl, scale), PlanY(Mul(Half(Neg(bw)), scale))),
          Pt(hpos(bl, abtl, scale), PlanY(Mul(Add(Half(Neg(bw)), so), scale))),
          Pt(hpos(bl, abtl, scale), PlanY(Mul(Add(Half(bw), so), scale))),
          Pt(hpos(R(0), abtl, scale), PlanY(Mul(Half(bw), scale)))>>

\* The five points of the square branch (lines 455-463)
SquareCorners(p) ==
    LET bl == Param(p, "LBRIDGE")
        bw == Param(p, "BRIDGEW")
        scale == ScaleOf(p)
        x1 == hpos(R(0), Param(p, "ABTL"), scale)
        y1 == PlanY(Mul(Half(Neg(bw)), scale))
        x2 == Add(x1, Mul(bl, scale))
        y2 == Add(y1, Mul(bw, scale))
    IN  Rect(x1, y1, x2, y2)

\* math.tan raises ValueError for an infinite angle (line 440).
PlanRaises(p) == IsInf(Param(p, "SKEW"))

\* Deck outline in plan (lines 438-464)
PlanOutline(p) ==
    IF Param(p, "SKEW") # R(0)
    THEN Polyline("plan_outline", "STRUCTURE", SkewedCorners(p, SkewOffset(p)), TRUE)
    ELSE Polyline("plan_outline", "STRUCTURE", SquareCorners(p), FALSE)

\* Centerline in plan (lines 467-471)
PlanCenterline(p) ==
    LET abtl == Param(p, "ABTL")
        scale == ScaleOf(p)
    IN  LineEnt("plan_centerline", "CENTERLINES",
                Pt(hpos(R(0), abtl, scale), R(PLAN_OFFSET_Y)),
                Pt(hpos(Param(p, "LBRIDGE"), abtl, scale), R(PLAN_OFFSET_Y)))

\* Variant: the label carries the enumerate index itself.
PlanPierMarker_ZeroBased(p, i) ==
    LET abtl == Param(p, "ABTL")
        scale == ScaleOf(p)
        pier_x == Add(abtl, Mul(R(i + 1), Param(p, "SPAN1")))
        xc == hpos(pier_x, abtl, scale)
        hw == Mul(Half(Param(p, "PIER_WIDTH")), scale)
        pier_length == Add(Param(p, "BRIDGEW"), R(1))
        lo == PlanY(Mul(Half(Neg(pier_length)), scale))
        hi == PlanY(Mul(Half(pier_length), scale))
    IN  <<Polyline("plan_piers", "STRUCTURE",
                   <<Pt(Sub(xc, hw), lo), Pt(Add(xc, hw), lo), Pt(Add(xc, hw), hi),
                     Pt(Sub(xc, hw), hi), Pt(Sub(xc, hw), lo)>>, FALSE),
          TextEnt("plan_piers", <<"P", ToString(i)>>,
                  Pt(xc, R(PLAN_OFFSET_Y)), "MAIN_TEXT")>>

\* Marker and label of the pier with enumerate index i (lines 479-499)
PlanPierMarker(p, i) ==
    LET abtl == Param(p, "ABTL")
        scale == ScaleOf(p)
        pier_x == Add(abtl, Mul(R(i + 1), Param(p, "SPAN1")))
        xc == hpos(pier_x, abtl, scale)
        hw == Mul(Half(Param(p, "PIER_WIDTH")), scale)
        pier_length == Add(Param(p, "BRIDGEW"), R(1))
        lo == PlanY(Mul(Half(Neg(pier_length)), scale))
        hi == PlanY(Mul(Half(pier_length), scale))
    IN  <<Polyline("plan_piers", "STRUCTURE",
                   <<Pt(Sub(xc, hw), lo), Pt(Add(xc, hw), lo), Pt(Add(xc, hw), hi),
                     Pt(Sub(xc, hw), hi), Pt(Sub(xc, hw), lo)>>, FALSE),
          TextEnt("plan_piers", <<"P", ToString(i + 1)>>,
                  Pt(xc, R(PLAN_OFFSET_Y)), "MAIN_TEXT")>>

\* ------------------------------------------------------------- dimensions
DimensionKeys ==
    {"NSPAN", "ABTL", "SPAN1", "LBRIDGE", "RTL", "DECKT", "ABUT_HEIGHT", "DATUM"}

\* What add_linear_dim appends for span i (lines 526-532), under faults F:
\* the dimension as it is before render().
SpanDimensionEntities(p, i, F) ==
    LET abtl == Param(p, "ABTL")
        span1 == Param(p, "SPAN1")
        scale == ScaleOf(p)
        datum == Param(p, "DATUM")
        dim_y == vpos(Sub(datum, R(10)), datum, scale)
        x1 == hpos(Add(abtl, Mul(R(i), span1)), abtl, scale)
        x2 == hpos(Add(abtl, Mul(R(i + 1), span1)), abtl, scale)
    IN  IF Fails(F, "span_dim_add", i) THEN <<>>
        ELSE <<DimEnt("dimensions", Pt(x1, dim_y), Pt(x1, Add(dim_y, R(5))),
                      Pt(x2, Add(dim_y, R(5))), FALSE)>>

\* dim_x = hpos(bridge_length + 15, abtl, scale) (line 538)
DimX(p) ==
    hpos(Add(Param(p, "LBRIDGE"), R(15)), Param(p, "ABTL"), ScaleOf(p))

\* A vertical dimension at x from level `low` up to RTL (lines 541-562)
VerticalDimension(p, x, low, complete) ==
    LET scale == ScaleOf(p)
        datum == Param(p, "DATUM")
    IN  DimEnt("dimensions", Pt(x, vpos(low, datum, scale)),
               Pt(x, vpos(low, datum, scale)),
               Pt(x, vpos(Param(p, "RTL"), datum, scale)), complete)

\* What add_linear_dim appends for the deck thickness (lines 542-548),
\* before render().
DeckDimensionEntities(p, F) ==
    IF Fails(F, "deck_dim_add", 0) THEN <<>>
    ELSE <<VerticalDimension(p, DimX(p),
                             Sub(Param(p, "RTL"), Param(p, "DECKT")), FALSE)>>

\* What add_linear_dim appends for the abutment height (lines 554-560),
\* before render().
AbutDimensionEntities(p, F) ==
    IF Fails(F, "abut_dim_add", 0) THEN <<>>
    ELSE <<VerticalDimension(p, Add(DimX(p), R(2)),
                             Sub(Param(p, "RTL"), Param(p, "ABUT_HEIGHT")),
                             FALSE)>>

\* ------------------------------------------------------------------- grid
\* f"{x:.2f}" and f"{x:.0f}" of the float x as text chunks: the decimal
\* nearest to the binary value, ties to even, with the sign of x.
Fixed2(x) ==
    LET r == DScaledRound(x, 2) IN
    (IF r[1] THEN <<"-">> ELSE <<>>)
    \o <<ToString(r[2] \div 100), ".", ToString((r[2] \div 10) % 10),
         ToString(r[2] % 10)>>
Fixed0(x) ==
    LET r == DScaledRound(x, 0) IN
    (IF r[1] THEN <<"-">> ELSE <<>>) \o <<ToString(r[2])>>

\* The level lines of draw_grid from current_level on (lines 137-156): a line
\* from (left, y) to (right, y) on GRID and the text 'RL <level>'.  level is
\* the exact level, current_level the float the loop holds after its
\* additions: the loop's test and the label read the float.
RECURSIVE GridLevelEntities(_, _, _)
GridLevelEntities(a, level, current_level) ==
    IF ~DLeq(current_level, DOf(a.top)) THEN <<>>
    ELSE LET y_pos == vpos(level, a.datum, a.scale) IN
         <<LineEnt("grid", "GRID", Pt(a.left, y_pos), Pt(a.right, y_pos)),
           TextEnt("grid", <<"RL ">> \o Fixed2(current_level),
                   Pt(Sub(a.left, R(30)), Sub(y_pos, R(2))), "MAIN_TEXT")>>
         \o GridLevelEntities(a, Add(level, a.y_incr),
                              DAdd(current_level, DOf(a.y_incr)))
\* The chainage lines of draw_grid from current_ch on (lines 158-179): a line
\* from (x, datum) to (x, vpos(top)) on GRID and the text 'Ch <chainage>'.
RECURSIVE GridChainageEntities(_, _, _)
GridChainageEntities(a, ch, current_ch) ==
    IF ~DLeq(current_ch, DOf(a.right)) THEN <<>>
    ELSE LET x_pos == hpos(ch, a.left, a.scale) IN
         <<LineEnt("grid", "GRID", Pt(x_pos, a.datum),
                   Pt(x_pos, vpos(a.top, a.datum, a.scale))),
           TextEnt("grid", <<"Ch ">> \o Fixed0(current_ch),
                   Pt(Sub(x_pos, R(5)), Sub(a.datum, R(15))), "MAIN_TEXT")>>
         \o GridChainageEntities(a, Add(ch, a.x_incr),
                                 DAdd(current_ch, DOf(a.x_incr)))
\* draw_grid(left, right, datum, top, x_incr, y_incr, scale), for finite
\* arguments and increments above zero (with an increment of zero or less a
\* loop of the code does not end while its level or chainage is within range).
GridEntities(a) ==
    GridLevelEntities(a, a.datum, DOf(a.datum))
    \o GridChainageEntities(a, a.left, DOf(a.left))

\* ------------------------------------------------------------ title block
\* Border, drawing title and the four info lines (lines 89-129).  The fault
\* "title_block" is the first add_text raising: the border stays.
TitleBlockEntities(o, F) ==
    <<Polyline("title_block", "STRUCTURE",
               Rect(R(200), R(20), R(380), R(80)), FALSE)>>
    \o (IF Fails(F, "title_block", 0) THEN <<>>
        ELSE <<TextEnt("title_block", <<o.drawing_title>>,
                       Pt(R(205), R(65)), "TITLE_TEXT"),
               TextEnt("title_block", <<"Project: ", o.project_name>>,
                       Pt(R(205), R(50)), "MAIN_TEXT"),
               TextEnt("title_block", <<"Scale: ">> \o o.scale,
                       Pt(R(205), R(42)), "MAIN_TEXT"),
               TextEnt("title_block", <<"Date: ", o.date>>,
                       Pt(R(205), R(34)), "MAIN_TEXT"),
               TextEnt("title_block", <<"Drawn by: BridgeGAD Pro">>,
                       Pt(R(205), R(26)), "MAIN_TEXT")>>)

\* ------------------------------------------------------------ view labels
\* _add_north_arrow(drawer, (300, -100)) (cad_utils.py lines 129-162).  The
\* fault "north_arrow" is add_lwpolyline raising: nothing is appended.
NorthArrowEntities(F) ==
    IF Fails(F, "north_arrow", 0) THEN <<>>
    ELSE <<Polyline("view_labels", "ANNOTATIONS",
                    <<Pt(R(300), R(-90)), Pt(Rat(890, 3), R(-100)),
                      Pt(R(300), Rat(-305, 3)), Pt(Rat(910, 3), R(-100)),
                      Pt(R(300), R(-90))>>, TRUE),
           TextEnt("view_labels", <<"N">>, Pt(R(300), R(-85)), "MAIN_TEXT")>>

\* _add_view_labels (cad_utils.py lines 98-127).  The fault "view_labels" is
\* the first add_text raising: nothing is appended, the arrow is not reached.
ViewLabelEntities(F) ==
    IF Fails(F, "view_labels", 0) THEN <<>>
    ELSE <<TextEnt("view_labels", <<"ELEVATION">>, Pt(R(-50), R(50)), "TITLE_TEXT"),
           TextEnt("view_labels", <<"PLAN">>, Pt(R(-50), R(-150)), "TITLE_TEXT")>>
         \o NorthArrowEntities(F)

\* ------------------------------------------------------------ build order
\* Variant: the title block is drawn before the dimensions.
BuildOrder_TitleFirst ==
    <<"elevation", "plan", "title_block", "dimensions", "view_labels", "save">>
\* Variant: the document is saved before the optional builders run.
BuildOrder_SaveEarly ==
    <<"elevation", "plan", "save", "dimensions", "title_block", "view_labels">>

\* The builder calls of generate_complete_bridge_dxf in program order
\* (cad_utils.py lines 59-89); "return" is the return statement (line 92).
BuildOrder ==
    <<"elevation", "plan", "dimensions", "title_block", "view_labels", "save">>

\* Variant: the dimension builder is called whatever the toggle says.
StageEnabled_DimsAlways(st, o) ==
    CASE st = "dimensions" -> TRUE
      [] st = "title_block" -> o.include_title_block
      [] st = "view_labels" -> o.include_annotations
      [] OTHER -> TRUE

\* options.get('include_...', True) guards of the optional builders.
StageEnabled(st, o) ==
    CASE st = "dimensions" -> o.include_dimensions
      [] st = "title_block" -> o.include_title_block
      [] st = "view_labels" -> o.include_annotations
      [] OTHER -> TRUE

RECURSIVE FirstEnabledFrom(_, _)
FirstEnabledFrom(k, o) ==
    IF k > Len(BuildOrder) THEN "return"
    ELSE IF StageEnabled(BuildOrder[k], o) THEN BuildOrder[k]
    ELSE FirstEnabledFrom(k + 1, o)

\* The statement control reaches when builder st returns.
NextStage(st, o) ==
    FirstEnabledFrom((CHOOSE k \in 1 .. Len(BuildOrder) : BuildOrder[k] = st) + 1, o)

\* Variant: one try/except around the whole span loop, so that a failing
\* span dimension ends the loop.
SpanDimNext_LoopAbort(p, i, F) ==
    IF Fails(F, "span_dim_add", i) \/ Fails(F, "span_dim_render", i)
    THEN "deck_dim"
    ELSE IF i + 1 < NSpan(p) THEN "span_dims" ELSE "deck_dim"

\* Where the span-dimension loop continues after iteration i: each dimension
\* has its own try/except inside the loop (lines 521-535).
SpanDimNext(p, i, F) == IF i + 1 < NSpan(p) THEN "span_dims" ELSE "deck_dim"

\* Variant: the hatching layer is not created.
LayerNames_NoHatching ==
    <<"STRUCTURE", "DIMENSIONS", "ANNOTATIONS", "CENTERLINES", "DETAILS", "GRID">>

\* The layers setup_layers creates, in order (bridge_drawer.py lines 38-52).
LayerNames ==
    <<"STRUCTURE", "DIMENSIONS", "ANNOTATIONS", "CENTERLINES", "HATCHING",
      "DETAILS", "GRID">>
\* The text styles setup_styles creates (bridge_drawer.py lines 59-69).
StyleNames == <<"MAIN_TEXT", "TITLE_TEXT">>

\* What doc.saveas writes: the tables and the model space at that moment.
Serialize(ls, ss, ents) == [layers |-> ls, styles |-> ss, entities |-> ents]

\* The clock's day during the call (datetime.now().strftime("%Y-%m-%d")).
Today == "2025-01-02"

\* ------------------------------------------------------------------ state
VARIABLES
    pc,            \* the statement the call is at
    params,        \* the caller's parameter dict (the drawer holds the same object);
                   \* in the application updated_params, empty until the press
    options,       \* the options dict
    faults,        \* the library calls that raise during this call
    layers,        \* layer table of the document
    styles,        \* text style table of the document
    dimstyles,     \* dimension style table of the document
    msp,           \* model space: the entities appended so far, in order
    log,           \* logger.warning / logger.error records
    outcome,       \* "running", "returned" or "raised"
    error,         \* the exception that left the call, or "none"
    dxf,           \* the value handed back to the caller
    saves,         \* number of doc.saveas calls that completed
    i,             \* loop index of the builder that is running
    scale_factor,  \* local of generate_complete_bridge_dxf
    finished,      \* builders that have returned to generate_complete_bridge_dxf
    calls,         \* number of calls the caller has made
    prev,          \* what the caller's previous call left: entities and outcome
    given,         \* the parameter dict as it was when handed to the call
    docs,          \* documents constructed since the request began
    entry,         \* "app": the button handler calls; "api": a direct call
    eval,          \* a direct evaluation of the drawer's helpers: arguments, results
    uploaded_file, \* the sheet uploaded to the application: rows name -> value
    session_parameters, \* st.session_state.parameters: what load_parameters gave
    edited_df      \* the values typed into the application's editor (name ->
                   \* value); the widget keeps them from one run to the next

vars ==
    <<pc, params, options, faults, layers, styles, dimstyles, msp, log,
      outcome, error, dxf, saves, i, scale_factor, finished, calls, prev,
                   given, docs, entry, eval,
                   uploaded_file, session_parameters, edited_df>>

NoContent == [layers |-> <<>>, styles |-> <<>>, entities |-> <<>>]
NoPrev == [msp |-> <<>>, outcome |-> "none", options |-> NoOptions]
\* No helper is being evaluated.
NoEval == [fn |-> "none", args |-> <<>>, out |-> <<>>]

Scenario(p, o, F) ==
    [params |-> p, options |-> o, faults |-> F, entry |-> "api", file |-> NoUpload]
\* A press of the generate button with the edited table p and the sidebar
\* selections o (app.py lines 282-308).
AppScenario(p, o) ==
    [params |-> p, options |-> o, faults |-> {}, entry |-> "app",
     file |-> DefaultSheet]

\* Direct calls: geometry and scale strings without faults (one span with the
\* other spellings of a number); parameters that are not finite; toggles
\* without faults; faults with every toggle on.  Requests from the application, with every toggle on: span
\* layouts and pier levels edited into the default sheet; the other uploads
\* without an edit; a library call that raises.
Scenarios ==
    {Scenario(p, o, {}) : p \in PierParamSets \cup BadParamSets, o \in ScaleOptionSets}
    \cup {Scenario(p, o, {}) : p \in SpanParamSets, o \in ToggleOptionSets}
    \cup {Scenario(WithSpans(DefaultParams, 1), AppOptions(sc, TRUE, TRUE, TRUE), {}) :
              sc \in FloatSyntaxScales \cup UnicodeScales}
    \cup {Scenario(p, NoOptions, {}) : p \in NonFiniteParamSets}
    \cup {Scenario(p, NoOptions, F) : p \in SpanParamSets, F \in FaultSets}
    \cup {AppScenario(p, AppOptions(<<"1", ":", "1", "0", "0">>, TRUE, TRUE, TRUE)) :
              p \in GeometryParamSets \cup ValidatedPierParamSets
                    \cup EditedParamSets}
    \cup {[AppScenario(EmptyDict,
                       AppOptions(<<"1", ":", "1", "0", "0">>, TRUE, TRUE, TRUE))
              EXCEPT !.file = f] : f \in UploadSet}
    \cup {[AppScenario(DefaultParams,
                       AppOptions(<<"1", ":", "1", "0", "0">>, TRUE, TRUE, TRUE))
              EXCEPT !.faults = {[site |-> st, idx |-> 0]}] :
              st \in {"deck_outline", "save"}}

\* The scenarios whose scale string is well formed.
WellFormedScenarios ==
    {sc \in Scenarios :
        "scale" \in DOMAIN sc.options => sc.options.scale \in WellFormedScales}

InitWith(sc) ==
    /\ pc = (IF sc.entry = "app" THEN "load" ELSE "call")
    /\ uploaded_file = sc.file
    /\ session_parameters = EmptyDict
    /\ edited_df = (IF sc.entry = "app" THEN sc.params ELSE EmptyDict)
    /\ params = (IF sc.entry = "app" THEN EmptyDict ELSE sc.params)
    /\ options = sc.options
    /\ faults = sc.faults
    /\ layers = <<>>
    /\ styles = <<>>
    /\ dimstyles = <<>>
    /\ msp = <<>>
    /\ log = <<>>
    /\ outcome = "running"
    /\ error = "none"
    /\ dxf = NoContent
    /\ saves = 0
    /\ i = 0
    /\ scale_factor = R(0)
    /\ finished = {}
    /\ calls = 1
    /\ prev = NoPrev
    /\ given = (IF sc.entry = "app" THEN EmptyDict ELSE sc.params)
    /\ docs = 0
    /\ entry = sc.entry
    /\ eval = NoEval

Init == \E sc \in Scenarios : InitWith(sc)

\* ---------------------------------------------------------------- actions
\* An exception leaves generate_complete_bridge_dxf: the builder's handler (if
\* any) logs, the outer handler logs and re-raises (cad_utils.py lines 94-96);
\* the button handler, when it made the call, logs it too (app.py line 344).
Raise(e, logs) ==
    /\ pc' = "failed"
    /\ outcome' = "raised"
    /\ error' = e
    /\ log' = log \o logs \o <<LogRec("error", "generate")>>
               \o (IF entry = "app" THEN <<LogRec("error", "app_generate")>>
                   ELSE <<>>)

\* A builder step: control moves to st, entities and log records are added.
Step(st, ents, logs) ==
    /\ pc' = st
    /\ msp' = msp \o ents
    /\ log' = log \o logs
    /\ UNCHANGED <<outcome, error>>

\* A call on the entity appended last changes it where it stands: control
\* moves to st, the last entity of the model space becomes e.
Edit(st, e, logs) ==
    /\ pc' = st
    /\ msp' = [msp EXCEPT ![Len(msp)] = e]
    /\ log' = log \o logs
    /\ UNCHANGED <<outcome, error>>

\* Builder b has returned to generate_complete_bridge_dxf.
Finish(b) == finished' = finished \cup {b}

\* What validate_parameters logs: logger.warning("Parameter validation
\* warnings: ...") (lines 243-244), or logger.error("Error validating
\* parameters: ...") from the outer handler (line 249).
ValidationLog(p) ==
    IF ValidateOverflows(p) THEN <<LogRec("error", "validate_parameters")>>
    ELSE IF HasWarnings(p) THEN <<LogRec("warning", "validation_warnings")>>
    ELSE <<>>

\* One run of the application's script with a file uploaded (app.py lines
\* 215-221): load_parameters reads the sheet.  When the sheet cannot be read
\* or a row raises, the loader logs and re-raises and the script's handler
\* logs (line 353).
LoadParameters ==
    /\ pc = "load"
    /\ IF uploaded_file.readable /\ ~LoadOverflows(uploaded_file.rows)
       THEN /\ session_parameters' = LoadedParams(uploaded_file.rows)
            /\ log' = log \o [j \in 1 .. LoadFailures(uploaded_file.rows) |->
                                 LogRec("warning", "load_parameters")]
            /\ pc' = "validate"
       ELSE /\ log' = log \o <<LogRec("error", "load_parameters"),
                                LogRec("error", "file_processing")>>
            /\ pc' = "stopped"
            /\ UNCHANGED session_parameters
    /\ UNCHANGED <<params, options, faults, layers, styles, dimstyles, msp,
                   outcome, error, dxf, saves, i, scale_factor, finished, calls,
                   prev, given, docs, entry, eval, uploaded_file, edited_df>>

\* The loaded dict is validated (app.py lines 224-226): values are converted
\* in place, warnings are logged, an invalid dict stops the script.
ValidateLoaded ==
    /\ pc = "validate"
    /\ session_parameters' = ConvertParams(session_parameters)
    /\ log' = log \o ValidationLog(session_parameters)
    /\ pc' = (IF Valid(session_parameters) THEN "press" ELSE "stopped")
    /\ UNCHANGED <<params, options, faults, layers, styles, dimstyles, msp,
                   outcome, error, dxf, saves, i, scale_factor, finished, calls,
                   prev, given, docs, entry, eval, uploaded_file, edited_df>>

\* The button handler up to the call (app.py lines 282-296): the edited
\* table becomes updated_params, which is validated (converted in place,
\* warnings logged); an invalid table stops the script, else a drawer is
\* constructed and generate_complete_bridge_dxf is called with the same dict.
PressGenerate ==
    /\ pc = "press"
    /\ LET updated_params == EditedTable(session_parameters, edited_df) IN
       /\ params' = ConvertParams(updated_params)
       /\ given' = ConvertParams(updated_params)
       /\ log' = log \o ValidationLog(updated_params)
       /\ IF Valid(updated_params)
          THEN /\ docs' = docs + 1
               /\ pc' = "call"
          ELSE /\ pc' = "stopped"
               /\ UNCHANGED docs
    /\ UNCHANGED <<options, faults, layers, styles, dimstyles, msp, outcome,
                   error, dxf, saves, i, scale_factor, finished, calls, prev,
                   entry, eval, uploaded_file, session_parameters,
                   edited_df>>

\* Lines 26-43 of cad_utils.py: options = {} if None, then merge the defaults.
MergeOptions ==
    /\ pc = "call"
    /\ options' = MergeDefaults(options, DefaultOptions(Today))
    /\ pc' = "create"
    /\ UNCHANGED <<params, faults, layers, styles, dimstyles, msp, log, outcome,
                   error, dxf, saves, i, scale_factor, finished, calls, prev,
                   given, docs, entry, eval,
                   uploaded_file, session_parameters,
                   edited_df>>

\* EnhancedBridgeDrawer(params): a new document with the layers, text styles
\* and dimension style the constructor creates (bridge_drawer.py lines 16-84).
CreateDrawer ==
    /\ pc = "create"
    /\ layers' = LayerNames
    /\ styles' = StyleNames
    /\ dimstyles' = <<"PROFESSIONAL">>
    /\ msp' = <<>>
    /\ docs' = docs + 1
    /\ pc' = "parse"
    /\ UNCHANGED <<params, options, faults, log, outcome, error, dxf, saves, i,
                   scale_factor, finished, calls, prev, given, entry, eval,
                   uploaded_file, session_parameters,
                   edited_df>>

\* Lines 49-53 of cad_utils.py.
ParseScale ==
    /\ pc = "parse"
    /\ IF ParseScaleError(options.scale) # "none"
       THEN /\ Raise(ParseScaleError(options.scale), <<>>)
            /\ UNCHANGED scale_factor
       ELSE /\ scale_factor' = ParseScaleFactor(options.scale)
            /\ pc' = "update"
            /\ UNCHANGED <<outcome, error, log>>
    /\ UNCHANGED <<params, options, faults, layers, styles, dimstyles, msp, dxf,
                   saves, i, finished, calls, prev,
                   given, docs, entry, eval,
                   uploaded_file, session_parameters,
                   edited_df>>

\* Lines 56-57 of cad_utils.py.
UpdateScale ==
    /\ pc = "update"
    /\ params' = UpdateScaleParams(params)
    /\ pc' = BuildOrder[1]
    /\ UNCHANGED <<options, faults, layers, styles, dimstyles, msp, log, outcome,
                   error, dxf, saves, i, scale_factor, finished, calls, prev,
                   given, docs, entry, eval,
                   uploaded_file, session_parameters,
                   edited_df>>

\* draw_elevation, the parameter block (lines 186-193); its handler re-raises.
DrawElevation ==
    /\ pc = "elevation"
    /\ IF ElevationReadError(params) # "none"
       THEN /\ Raise(ElevationReadError(params), <<LogRec("error", "elevation")>>)
            /\ UNCHANGED i
       ELSE /\ pc' = IF NSpan(params) > 0 THEN "deck" ELSE "piers_begin"
            /\ i' = 0
            /\ UNCHANGED <<outcome, error, log>>
    /\ UNCHANGED <<params, options, faults, layers, styles, dimstyles, msp, dxf,
                   saves, scale_factor, finished, calls, prev,
                   given, docs, entry, eval,
                   uploaded_file, session_parameters,
                   edited_df>>

\* One iteration of the deck loop up to add_hatch (lines 196-218): the
\* outline is appended, then the empty hatch.  add_hatch raising is caught
\* inside the loop (lines 221-222).
DrawDeckSegment ==
    /\ pc = "deck"
    /\ IF Fails(faults, "deck_outline", i)
       THEN /\ Raise("DXFError", <<LogRec("error", "elevation")>>)
            /\ UNCHANGED <<msp, i>>
       ELSE IF Fails(faults, "hatch_add", i)
       THEN /\ Step(DeckNext(params, i), DeckSegmentEntities(params, i, faults),
                    <<LogRec("warning", "deck_hatch")>>)
            /\ i' = i + 1
       ELSE /\ Step("hatch_path", DeckSegmentEntities(params, i, faults), <<>>)
            /\ UNCHANGED i
    /\ UNCHANGED <<params, options, faults, layers, styles, dimstyles, dxf, saves,
                   scale_factor, finished, calls, prev,
                   given, docs, entry, eval,
                   uploaded_file, session_parameters,
                   edited_df>>

\* hatch.paths.add_polyline_path(deck_points, is_closed=True) (line 219) on
\* the hatch just appended; raising ends the iteration with a warning.
AddHatchPath ==
    /\ pc = "hatch_path"
    /\ IF Fails(faults, "hatch_path", i)
       THEN /\ Step(DeckNext(params, i), <<>>, <<LogRec("warning", "deck_hatch")>>)
            /\ i' = i + 1
       ELSE /\ Edit("hatch_fill",
                    AddPolylinePath(msp[Len(msp)], DeckPoints(params, i)), <<>>)
            /\ UNCHANGED i
    /\ UNCHANGED <<params, options, faults, layers, styles, dimstyles, dxf, saves,
                   scale_factor, finished, calls, prev,
                   given, docs, entry, eval,
                   uploaded_file, session_parameters,
                   edited_df>>

\* hatch.set_pattern_fill("ANSI31", scale=0.5) (line 220) on the same hatch;
\* the iteration ends.
SetHatchPattern ==
    /\ pc = "hatch_fill"
    /\ IF Fails(faults, "hatch_fill", i)
       THEN Step(DeckNext(params, i), <<>>, <<LogRec("warning", "deck_hatch")>>)
       ELSE Edit(DeckNext(params, i), SetPatternFill(msp[Len(msp)]), <<>>)
    /\ i' = i + 1
    /\ UNCHANGED <<params, options, faults, layers, styles, dimstyles, dxf, saves,
                   scale_factor, finished, calls, prev,
                   given, docs, entry, eval,
                   uploaded_file, session_parameters,
                   edited_df>>

\* draw_piers up to its loop (lines 235-252); its handler logs and returns.
DrawPiers ==
    /\ pc = "piers_begin"
    /\ IF IntRaises(Param(params, "NSPAN")) # "none"
       THEN Step("abutments", <<>>, <<LogRec("error", "piers")>>) /\ UNCHANGED i
       ELSE IF NSpan(params) <= 1
       THEN Step("abutments", <<>>, <<>>) /\ UNCHANGED i
       ELSE IF ~ReadsOk(params, PierKeys)
       THEN Step("abutments", <<>>, <<LogRec("error", "piers")>>) /\ UNCHANGED i
       ELSE Step("piers", <<>>, <<>>) /\ i' = 1
    /\ UNCHANGED <<params, options, faults, layers, styles, dimstyles, dxf, saves,
                   scale_factor, finished, calls, prev,
                   given, docs, entry, eval,
                   uploaded_file, session_parameters,
                   edited_df>>

\* One iteration of the pier loop (lines 255-307); a ZeroDivisionError ends
\* the builder in its handler (lines 309-310) with the cap already appended.
DrawPier ==
    /\ pc = "piers"
    /\ IF PierShaftRaises(params)
       THEN Step("abutments", PierEntities(params, i), <<LogRec("error", "piers")>>)
            /\ UNCHANGED i
       ELSE Step(IF i + 1 < NSpan(params) THEN "piers" ELSE "abutments",
                 PierEntities(params, i), <<>>)
            /\ i' = i + 1
    /\ UNCHANGED <<params, options, faults, layers, styles, dimstyles, dxf, saves,
                   scale_factor, finished, calls, prev,
                   given, docs, entry, eval,
                   uploaded_file, session_parameters,
                   edited_df>>

\* draw_abutments (lines 312-383).
DrawAbutments ==
    /\ pc = "abutments"
    /\ IF ReadsOk(params, AbutmentKeys)
       THEN Step("approach", AbutmentEntities(params), <<>>)
       ELSE Step("approach", <<>>, <<LogRec("error", "abutments")>>)
    /\ UNCHANGED <<params, options, faults, layers, styles, dimstyles, dxf, saves,
                   i, scale_factor, finished, calls, prev,
                   given, docs, entry, eval,
                   uploaded_file, session_parameters,
                   edited_df>>

\* draw_approach_slabs (lines 385-420); draw_elevation then returns.
DrawApproachSlabs ==
    /\ pc = "approach"
    /\ IF ReadsOk(params, ApproachKeys)
       THEN Step(NextStage("elevation", options), ApproachSlabEntities(params), <<>>)
       ELSE Step(NextStage("elevation", options), <<>>,
                 <<LogRec("error", "approach")>>)
    /\ Finish("elevation")
    /\ UNCHANGED <<params, options, faults, layers, styles, dimstyles, dxf, saves,
                   i, scale_factor, calls, prev,
                   given, docs, entry, eval,
                   uploaded_file, session_parameters,
                   edited_df>>

\* draw_plan: parameter block and deck outline (lines 424-464).
DrawPlan ==
    /\ pc = "plan"
    /\ IF ReadsOk(params, PlanKeys) /\ ~PlanRaises(params)
       THEN Step("plan_centerline", <<PlanOutline(params)>>, <<>>)
            /\ UNCHANGED finished
       ELSE Step(NextStage("plan", options), <<>>, <<LogRec("error", "plan")>>)
            /\ Finish("plan")
    /\ UNCHANGED <<params, options, faults, layers, styles, dimstyles, dxf, saves,
                   i, scale_factor, calls, prev,
                   given, docs, entry, eval,
                   uploaded_file, session_parameters,
                   edited_df>>

\* draw_plan: centerline, then the pier block's setup (lines 466-477).
DrawPlanCenterline ==
    /\ pc = "plan_centerline"
    /\ IF NSpan(params) <= 1
       THEN Step(NextStage("plan", options), <<PlanCenterline(params)>>, <<>>)
            /\ Finish("plan")
       ELSE IF ~IsFloat(Param(params, "PIER_WIDTH"))
       THEN Step(NextStage("plan", options), <<PlanCenterline(params)>>,
                 <<LogRec("error", "plan")>>)
            /\ Finish("plan")
       ELSE Step("plan_piers", <<PlanCenterline(params)>>, <<>>)
            /\ UNCHANGED finished
    /\ i' = 0
    /\ UNCHANGED <<params, options, faults, layers, styles, dimstyles, dxf, saves,
                   scale_factor, calls, prev,
                   given, docs, entry, eval,
                   uploaded_file, session_parameters,
                   edited_df>>

\* draw_plan: one iteration of the pier marker loop (lines 479-499).
DrawPlanPierMarker ==
    /\ pc = "plan_piers"
    /\ IF i + 1 < NSpan(params) - 1
       THEN Step("plan_piers", PlanPierMarker(params, i), <<>>)
            /\ UNCHANGED finished
       ELSE Step(NextStage("plan", options), PlanPierMarker(params, i), <<>>)
            /\ Finish("plan")
    /\ i' = i + 1
    /\ UNCHANGED <<params, options, faults, layers, styles, dimstyles, dxf, saves,
                   scale_factor, calls, prev,
                   given, docs, entry, eval,
                   uploaded_file, session_parameters,
                   edited_df>>

\* add_dimensions: the parameter block (lines 506-519).
AddDimensions ==
    /\ pc = "dimensions"
    /\ IF ReadsOk(params, DimensionKeys)
       THEN Step(IF NSpan(params) > 0 THEN "span_dims" ELSE "deck_dim", <<>>, <<>>)
            /\ UNCHANGED finished
       ELSE Step(NextStage("dimensions", options), <<>>,
                 <<LogRec("error", "dimensions")>>)
            /\ Finish("dimensions")
    /\ i' = 0
    /\ UNCHANGED <<params, options, faults, layers, styles, dimstyles, dxf, saves,
                   scale_factor, calls, prev,
                   given, docs, entry, eval,
                   uploaded_file, session_parameters,
                   edited_df>>

\* add_dimensions: add_linear_dim of span i (lines 521-532); raising is
\* caught inside the loop (lines 534-535).
AddSpanDimension ==
    /\ pc = "span_dims"
    /\ IF Fails(faults, "span_dim_add", i)
       THEN /\ Step(SpanDimNext(params, i, faults), <<>>,
                    <<LogRec("warning", "span_dim")>>)
            /\ i' = i + 1
       ELSE /\ Step("span_dim_render",
                    SpanDimensionEntities(params, i, faults), <<>>)
            /\ UNCHANGED i
    /\ UNCHANGED <<params, options, faults, layers, styles, dimstyles, dxf, saves,
                   scale_factor, finished, calls, prev,
                   given, docs, entry, eval,
                   uploaded_file, session_parameters,
                   edited_df>>

\* dim.render() of span i (line 533), on the dimension just appended.
RenderSpanDimension ==
    /\ pc = "span_dim_render"
    /\ IF Fails(faults, "span_dim_render", i)
       THEN Step(SpanDimNext(params, i, faults), <<>>,
                 <<LogRec("warning", "span_dim")>>)
       ELSE Edit(SpanDimNext(params, i, faults), Render(msp[Len(msp)]), <<>>)
    /\ i' = i + 1
    /\ UNCHANGED <<params, options, faults, layers, styles, dimstyles, dxf, saves,
                   scale_factor, finished, calls, prev,
                   given, docs, entry, eval,
                   uploaded_file, session_parameters,
                   edited_df>>

\* add_dimensions: add_linear_dim of the deck thickness (lines 537-548).
AddDeckDimension ==
    /\ pc = "deck_dim"
    /\ IF Fails(faults, "deck_dim_add", 0)
       THEN Step("abut_dim", <<>>, <<LogRec("warning", "deck_dim")>>)
       ELSE Step("deck_dim_render", DeckDimensionEntities(params, faults), <<>>)
    /\ UNCHANGED <<params, options, faults, layers, styles, dimstyles, dxf, saves,
                   i, scale_factor, finished, calls, prev,
                   given, docs, entry, eval,
                   uploaded_file, session_parameters,
                   edited_df>>

\* .render() of the deck thickness dimension (line 548).
RenderDeckDimension ==
    /\ pc = "deck_dim_render"
    /\ IF Fails(faults, "deck_dim_render", 0)
       THEN Step("abut_dim", <<>>, <<LogRec("warning", "deck_dim")>>)
       ELSE Edit("abut_dim", Render(msp[Len(msp)]), <<>>)
    /\ UNCHANGED <<params, options, faults, layers, styles, dimstyles, dxf, saves,
                   i, scale_factor, finished, calls, prev,
                   given, docs, entry, eval,
                   uploaded_file, session_parameters,
                   edited_df>>

\* add_dimensions: add_linear_dim of the abutment height (lines 552-560);
\* when it raises the builder is at its end.
AddAbutmentDimension ==
    /\ pc = "abut_dim"
    /\ IF Fails(faults, "abut_dim_add", 0)
       THEN /\ Step(NextStage("dimensions", options), <<>>,
                    <<LogRec("warning", "abut_dim")>>)
            /\ Finish("dimensions")
       ELSE /\ Step("abut_dim_render", AbutDimensionEntities(params, faults), <<>>)
            /\ UNCHANGED finished
    /\ UNCHANGED <<params, options, faults, layers, styles, dimstyles, dxf, saves,
                   i, scale_factor, calls, prev,
                   given, docs, entry, eval,
                   uploaded_file, session_parameters,
                   edited_df>>

\* .render() of the abutment height dimension (line 560); the builder ends.
RenderAbutmentDimension ==
    /\ pc = "abut_dim_render"
    /\ IF Fails(faults, "abut_dim_render", 0)
       THEN Step(NextStage("dimensions", options), <<>>,
                 <<LogRec("warning", "abut_dim")>>)
       ELSE Edit(NextStage("dimensions", options), Render(msp[Len(msp)]), <<>>)
    /\ Finish("dimensions")
    /\ UNCHANGED <<params, options, faults, layers, styles, dimstyles, dxf, saves,
                   i, scale_factor, calls, prev,
                   given, docs, entry, eval,
                   uploaded_file, session_parameters,
                   edited_df>>

\* draw_title_block (lines 86-131).
DrawTitleBlock ==
    /\ pc = "title_block"
    /\ Step(NextStage("title_block", options), TitleBlockEntities(options, faults),
            IF Fails(faults, "title_block", 0)
            THEN <<LogRec("error", "title_block")>> ELSE <<>>)
    /\ Finish("title_block")
    /\ UNCHANGED <<params, options, faults, layers, styles, dimstyles, dxf, saves,
                   i, scale_factor, calls, prev,
                   given, docs, entry, eval,
                   uploaded_file, session_parameters,
                   edited_df>>

\* _add_view_labels with _add_north_arrow (cad_utils.py lines 98-162).
AddViewLabels ==
    /\ pc = "view_labels"
    /\ Step(NextStage("view_labels", options), ViewLabelEntities(faults),
            IF Fails(faults, "view_labels", 0)
            THEN <<LogRec("warning", "view_labels")>>
            ELSE IF Fails(faults, "north_arrow", 0)
            THEN <<LogRec("warning", "north_arrow")>> ELSE <<>>)
    /\ Finish("view_labels")
    /\ UNCHANGED <<params, options, faults, layers, styles, dimstyles, dxf, saves,
                   i, scale_factor, calls, prev,
                   given, docs, entry, eval,
                   uploaded_file, session_parameters,
                   edited_df>>

\* save_drawing() (lines 575-610); its handler logs and re-raises.
SaveDrawing ==
    /\ pc = "save"
    /\ IF Fails(faults, "save", 0)
       THEN /\ Raise("IOError", <<LogRec("error", "save")>>)
            /\ UNCHANGED <<dxf, saves>>
       ELSE /\ dxf' = Serialize(layers, styles, msp)
            /\ saves' = saves + 1
            /\ pc' = NextStage("save", options)
            /\ UNCHANGED <<outcome, error, log>>
    /\ UNCHANGED <<params, options, faults, layers, styles, dimstyles, msp, i,
                   scale_factor, finished, calls, prev,
                   given, docs, entry, eval,
                   uploaded_file, session_parameters,
                   edited_df>>

\* return dxf_content (cad_utils.py line 92).
Return ==
    /\ pc = "return"
    /\ pc' = "done"
    /\ outcome' = "returned"
    /\ UNCHANGED <<params, options, faults, layers, styles, dimstyles, msp, log,
                   error, dxf, saves, i, scale_factor, finished, calls, prev,
                   given, docs, entry, eval,
                   uploaded_file, session_parameters,
                   edited_df>>

Next ==
    \/ LoadParameters
    \/ ValidateLoaded
    \/ PressGenerate
    \/ MergeOptions
    \/ CreateDrawer
    \/ ParseScale
    \/ UpdateScale
    \/ DrawElevation
    \/ DrawDeckSegment
    \/ AddHatchPath
    \/ SetHatchPattern
    \/ DrawPiers
    \/ DrawPier
    \/ DrawAbutments
    \/ DrawApproachSlabs
    \/ DrawPlan
    \/ DrawPlanCenterline
    \/ DrawPlanPierMarker
    \/ AddDimensions
    \/ AddSpanDimension
    \/ RenderSpanDimension
    \/ AddDeckDimension
    \/ RenderDeckDimension
    \/ AddAbutmentDimension
    \/ RenderAbutmentDimension
    \/ DrawTitleBlock
    \/ AddViewLabels
    \/ SaveDrawing
    \/ Return

Spec == Init /\ [][Next]_vars

\* ------------------------------------------------------- a second request
\* The dict p with SCALE1 and SCALE2 set to the pair.
WithScalePair(p, pair) ==
    [k \in DOMAIN p \cup {"SCALE1", "SCALE2"} |->
        IF k = "SCALE1" THEN pair[1]
        ELSE IF k = "SCALE2" THEN pair[2] ELSE p[k]]

\* The caller asks again with another scale selection and other SCALE1/SCALE2
\* values, everything else as before.  A direct caller hands in its dict
\* again; in the application the values are typed into the editor and the
\* script runs again from the top: updated_params is built anew from the
\* editor at the press (app.py lines 215-311).
Regenerate ==
    /\ pc \in {"done", "failed"}
    /\ calls = 1
    /\ calls' = 2
    /\ prev' = [msp |-> msp, outcome |-> outcome, options |-> options]
    /\ \E pair \in ScalePairs, sc \in WellFormedScales :
          /\ IF entry = "app"
             THEN /\ edited_df' = WithScalePair(edited_df, pair)
                  /\ params' = EmptyDict
             ELSE /\ params' = WithScalePair(params, pair)
                  /\ UNCHANGED edited_df
          /\ options' = [options EXCEPT !.scale = sc]
    /\ given' = params'
    /\ docs' = 0
    /\ pc' = (IF entry = "app" THEN "load" ELSE "call")
    /\ outcome' = "running"
    /\ error' = "none"
    /\ dxf' = NoContent
    /\ saves' = 0
    /\ i' = 0
    /\ scale_factor' = R(0)
    /\ finished' = {}
    /\ UNCHANGED <<faults, layers, styles, dimstyles, msp, log, entry, eval,
                   uploaded_file, session_parameters>>

InitTwoCalls == \E sc \in WellFormedScenarios : InitWith(sc)

NextTwoCalls == Next \/ Regenerate

SpecTwoCalls == InitTwoCalls /\ [][NextTwoCalls]_vars

\* The same parameters and scale submitted again with another selection of
\* the three toggles, after the first call has ended: a direct caller hands
\* in the dict the first call left; the application runs its script again
\* and builds updated_params anew from the editor (app.py line 286).
RegenerateToggled ==
    /\ pc \in {"done", "failed"}
    /\ calls = 1
    /\ calls' = 2
    /\ prev' = [msp |-> msp, outcome |-> outcome, options |-> options]
    /\ \E d \in BOOLEAN, a \in BOOLEAN, t \in BOOLEAN :
          options' = [options EXCEPT !.include_dimensions = d,
                                     !.include_annotations = a,
                                     !.include_title_block = t]
    /\ params' = (IF entry = "app" THEN EmptyDict ELSE params)
    /\ given' = params'
    /\ docs' = 0
    /\ pc' = (IF entry = "app" THEN "load" ELSE "call")
    /\ outcome' = "running"
    /\ error' = "none"
    /\ dxf' = NoContent
    /\ saves' = 0
    /\ i' = 0
    /\ scale_factor' = R(0)
    /\ finished' = {}
    /\ UNCHANGED <<faults, layers, styles, dimstyles, msp, log, entry, eval,
                   uploaded_file, session_parameters,
                   edited_df>>

\* First requests with every selection of the toggles, without faults: direct
\* calls and presses of the application's button.
InitToggleCalls ==
    \E p \in SpanParamSets, o \in ToggleOptionSets :
        InitWith(Scenario(p, o, {})) \/ InitWith(AppScenario(p, o))

NextToggleCalls == Next \/ RegenerateToggled

SpecToggleCalls == InitToggleCalls /\ [][NextToggleCalls]_vars

\* ------------------------------------------- the helpers evaluated directly
\* Arguments tried for hpos(chainage, left, scale): two chainages c and d, a
\* factor k, two values for left.
HposArgs ==
    [for : {"hpos"}, c : {R(-5), R(0), R(30), Rat(7, 2)}, d : {R(30), Rat(7, 2)},
     k : {R(3), R(-1)}, left : {R(0), R(10)}, other : {R(0), R(25)},
     scale : {R(2), Rat(1, 2)}]
\* Arguments tried for vpos(level, datum, scale): a level, a step d, a factor k.
VposArgs ==
    [for : {"vpos"}, level : {R(105), R(100), Rat(197, 2)}, d : {R(6), Rat(-6, 5)},
     k : {R(3), R(-1)}, datum : {R(100), R(0)}, scale : {R(2), Rat(1, 2)}]
\* Parameter dicts tried for the plan outline; SKEW is set by the evaluation.
OutlineParamSets ==
    {[DefaultParams EXCEPT !.BRIDGEW = w, !.LBRIDGE = l, !.ABTL = a,
                           !.SCALE1 = sc[1], !.SCALE2 = sc[2]] :
        w \in {R(12), R(6)}, l \in {R(60), R(100)}, a \in {R(0), R(10)},
        sc \in ScalePairs}
PlanArgs == [for : {"plan_outline"}, p : OutlineParamSets]
\* Arguments tried for draw_grid; a datum that is not a number makes the
\* first comparison raise.  The second family steps by 0.1 up to 0.3 (three
\* additions of 0.1 exceed 0.3 in binary) and by 0.125 (a tie of '.2f').
GridArgs ==
    [for : {"draw_grid"}, left : {R(0), R(10)}, right : {R(60), R(90)},
     datum : {R(100), NaN}, top : {R(102), R(105)}, x_incr : {R(30)},
     y_incr : {R(1), Rat(3, 2)}, scale : {R(2), R(1)}]
    \cup [for : {"draw_grid"}, left : {R(0)}, right : {Rat(3, 10), Rat(1, 2)},
          datum : {R(0), Rat(-1, 200)}, top : {Rat(3, 10), Rat(1, 8)},
          x_incr : {Rat(1, 10)}, y_incr : {Rat(1, 10), Rat(1, 8)},
          scale : {R(2)}]
\* A dict with the one key k.
OneKey(k, v) == [j \in {k} |-> v]
\* Dicts tried for get_drawing_info(params): none or every key; a span count
\* with a fraction, negative, not a number, infinite, a text; a length that
\* is a text; an infinite skew; values that print as 'nan', '-inf', and the
\* ties 12.25 and 1.005.  A value is a float or a text no conversion takes.
InfoParamSets ==
    {EmptyDict, DefaultParams,
     OneKey("NSPAN", Rat(37, 10)), OneKey("NSPAN", Rat(-5, 2)),
     OneKey("NSPAN", NotANumber), OneKey("NSPAN", PosInf), OneKey("NSPAN", NaN),
     OneKey("LBRIDGE", NaN), OneKey("DATUM", NaN), OneKey("SKEW", PosInf),
     [k \in {"LBRIDGE", "RTL", "SKEW", "DECKT"} |->
         CASE k = "LBRIDGE" -> NotANumber
           [] k = "RTL" -> NegInf
           [] k = "SKEW" -> Rat(49, 4)
           [] OTHER -> Rat(201, 200)]}
\* Arguments tried for get_drawing_info: a dict, or None.
InfoArgs ==
    [for : {"get_drawing_info"}, none : {FALSE}, p : InfoParamSets]
    \cup [for : {"get_drawing_info"}, none : {TRUE}, p : {EmptyDict}]
\* Arguments tried for export_parameters(params, filename): a dict (empty,
\* the defaults, with an unknown key) or None, with and without a file name.
ExportArgs ==
    [for : {"export_parameters"}, none : {FALSE},
     p : {EmptyDict, DefaultParams, OneKey("NSPAN", R(3)),
          [k \in {"NSPAN", "FOO"} |-> IF k = "NSPAN" THEN R(3) ELSE NaN]},
     filename : BOOLEAN]
    \cup [for : {"export_parameters"}, none : {TRUE}, p : {EmptyDict},
          filename : BOOLEAN]
\* Skew angles in [0, 45] degrees for which the model knows the tangent.
SkewAngles == {R(0), R(15), R(30), R(45)}

\* A drawer has been constructed for the default parameters; no generation
\* is in progress; the arguments of one direct call are chosen.
InitFunctions ==
    /\ pc = "idle"
    /\ params = DefaultParams
    /\ options = NoOptions
    /\ faults = {}
    /\ layers = LayerNames
    /\ styles = StyleNames
    /\ dimstyles = <<"PROFESSIONAL">>
    /\ msp = <<>>
    /\ log = <<>>
    /\ outcome = "running"
    /\ error = "none"
    /\ dxf = NoContent
    /\ saves = 0
    /\ i = 0
    /\ scale_factor = R(0)
    /\ finished = {}
    /\ calls = 0
    /\ prev = NoPrev
    /\ given = DefaultParams
    /\ docs = 1
    /\ entry = "api"
    /\ uploaded_file = NoUpload
    /\ session_parameters = EmptyDict
    /\ edited_df = EmptyDict
    /\ \E a \in HposArgs \cup VposArgs \cup PlanArgs \cup GridArgs
                \cup InfoArgs \cup ExportArgs :
          eval = [fn |-> "none", args |-> a, out |-> <<>>]

\* The program state an evaluation leaves alone.
CallState ==
    <<pc, params, options, faults, layers, styles, dimstyles, msp, log, outcome,
      error, dxf, saves, i, scale_factor, finished, calls, prev, given, docs,
      entry, uploaded_file, session_parameters,
                   edited_df>>

\* hpos at c, d, c + d, k * c and 0, and at c with another 'left'.
EvalHpos ==
    /\ eval.fn = "none" /\ eval.args.for = "hpos"
    /\ LET a == eval.args IN
       eval' = [eval EXCEPT
                  !.fn = "hpos",
                  !.out = [at_c |-> hpos(a.c, a.left, a.scale),
                           at_d |-> hpos(a.d, a.left, a.scale),
                           at_sum |-> hpos(Add(a.c, a.d), a.left, a.scale),
                           at_kc |-> hpos(Mul(a.k, a.c), a.left, a.scale),
                           at_zero |-> hpos(R(0), a.left, a.scale),
                           other_left |-> hpos(a.c, a.other, a.scale)]]
    /\ UNCHANGED CallState

\* vpos at level, level + d, level + k * d and at the datum.
EvalVpos ==
    /\ eval.fn = "none" /\ eval.args.for = "vpos"
    /\ LET a == eval.args IN
       eval' = [eval EXCEPT
                  !.fn = "vpos",
                  !.out = [at_l |-> vpos(a.level, a.datum, a.scale),
                           at_step |-> vpos(Add(a.level, a.d), a.datum, a.scale),
                           at_ksteps |-> vpos(Add(a.level, Mul(a.k, a.d)),
                                              a.datum, a.scale),
                           at_datum |-> vpos(a.datum, a.datum, a.scale)]]
    /\ UNCHANGED CallState

\* The plan outline of draw_plan (lines 438-464) for each skew angle, and the
\* corner list of its skewed branch with a skew offset of zero.
EvalPlanOutline ==
    /\ eval.fn = "none" /\ eval.args.for = "plan_outline"
    /\ LET p == eval.args.p IN
       eval' = [eval EXCEPT
                  !.fn = "plan_outline",
                  !.out = [outline |-> [k \in SkewAngles |->
                                          PlanOutline([p EXCEPT !.SKEW = k]).pts],
                           sheared0 |-> SkewedCorners([p EXCEPT !.SKEW = R(0)],
                                                      R(0))]]
    /\ UNCHANGED CallState

\* drawer.draw_grid(...) (lines 133-181); its handler logs and returns.
DrawGrid ==
    /\ eval.fn = "none" /\ eval.args.for = "draw_grid"
    /\ eval' = [eval EXCEPT !.fn = "draw_grid"]
    /\ IF IsFloat(eval.args.datum)
       THEN /\ msp' = msp \o GridEntities(eval.args)
            /\ UNCHANGED log
       ELSE /\ log' = log \o <<LogRec("error", "grid")>>
            /\ UNCHANGED msp
    /\ UNCHANGED <<pc, params, options, faults, layers, styles, dimstyles,
                   outcome, error, dxf, saves, i, scale_factor, finished, calls,
                   prev, given, docs, entry, uploaded_file, session_parameters,
                   edited_df>>

\* f"{v:.2f}" and f"{v:.1f}" of a float v: 'inf', '-inf' and 'nan' for the
\* values that are no finite number.
Fixed1(x) ==
    LET r == DScaledRound(x, 1) IN
    (IF r[1] THEN <<"-">> ELSE <<>>)
    \o <<ToString(r[2] \div 10), ".", ToString(r[2] % 10)>>
NonFiniteText(v) ==
    IF v = PosInf THEN <<"inf">> ELSE IF v = NegInf THEN <<"-inf">> ELSE <<"nan">>
Format2f(v) == IF IsNum(v) THEN Fixed2(DOf(v)) ELSE NonFiniteText(v)
Format1f(v) == IF IsNum(v) THEN Fixed1(DOf(v)) ELSE NonFiniteText(v)

\* The keys get_drawing_info formats, each with the default 0 (lines 193-198).
InfoKeys == {"LBRIDGE", "BRIDGEW", "SKEW", "DECKT", "RTL", "DATUM"}
\* get_drawing_info raises inside its try: params is None (no .get), int()
\* refuses NSPAN, or a formatted value is a text (format code 'f').
DrawingInfoRaises(a) ==
    \/ a.none
    \/ IntRaises(Get(a.p, "NSPAN", R(1))) # "none"
    \/ \E k \in InfoKeys : ~IsFloat(Get(a.p, k, R(0)))
\* The info dict of get_drawing_info (lines 190-199); the source text ends
\* the skew angle with the two characters U+00C2 U+00B0.
DrawingInfo(p) ==
    [bridge_type |-> "Slab Bridge",
     spans |-> ToInt(Get(p, "NSPAN", R(1))),
     total_length |-> Format2f(Get(p, "LBRIDGE", R(0))) \o <<" m">>,
     bridge_width |-> Format2f(Get(p, "BRIDGEW", R(0))) \o <<" m">>,
     skew_angle |-> Format1f(Get(p, "SKEW", R(0))) \o <<"U+00C2", "U+00B0">>,
     deck_thickness |-> Format2f(Get(p, "DECKT", R(0))) \o <<" m">>,
     riding_level |-> Format2f(Get(p, "RTL", R(0))) \o <<" m">>,
     datum_level |-> Format2f(Get(p, "DATUM", R(0))) \o <<" m">>]

\* cad_utils.get_drawing_info(params) (lines 187-205): the info dict, or {}
\* and an error record when anything raised.
GetDrawingInfo ==
    /\ eval.fn = "none" /\ eval.args.for = "get_drawing_info"
    /\ IF DrawingInfoRaises(eval.args)
       THEN /\ eval' = [eval EXCEPT !.fn = "get_drawing_info", !.out = EmptyDict]
            /\ log' = log \o <<LogRec("error", "get_drawing_info")>>
       ELSE /\ eval' = [eval EXCEPT !.fn = "get_drawing_info",
                                    !.out = DrawingInfo(eval.args.p)]
            /\ UNCHANGED log
    /\ UNCHANGED <<pc, params, options, faults, layers, styles, dimstyles, msp,
                   outcome, error, dxf, saves, i, scale_factor, finished, calls,
                   prev, given, docs, entry, uploaded_file, session_parameters,
                   edited_df>>

\* 'description' of ParameterManager.parameter_definitions.
ParamDescription ==
    [NSPAN |-> "Number of spans", SPAN1 |-> "Span length (m)",
     LBRIDGE |-> "Total bridge length (m)", BRIDGEW |-> "Bridge width (m)",
     SKEW |-> "Skew angle (degrees)", RTL |-> "Riding surface level (m)",
     DATUM |-> "Drawing datum level (m)", ABTL |-> "Left abutment chainage (m)",
     DECKT |-> "Deck thickness (m)", CAPT |-> "Pier cap top level (m)",
     CAPB |-> "Pier cap bottom level (m)", CAPW |-> "Pier cap width (m)",
     PIERTW |-> "Pier top width (m)", BATTR |-> "Pier batter ratio",
     PIER_WIDTH |-> "Pier width in plan (m)",
     FUTRL |-> "Foundation top level (m)", FUTD |-> "Foundation depth (m)",
     FUTW |-> "Foundation width (m)", ABUT_HEIGHT |-> "Abutment height (m)",
     ABUT_WIDTH |-> "Abutment width (m)",
     FOOT_LENGTH |-> "Abutment footing length (m)",
     FOOT_THICK |-> "Abutment footing thickness (m)",
     APPR_LENGTH |-> "Approach slab length (m)",
     APPR_THICK |-> "Approach slab thickness (m)",
     SCALE1 |-> "Drawing scale numerator",
     SCALE2 |-> "Drawing scale denominator"]
\* _get_units of a parameter's description (lines 85-94): 'degrees' for the
\* one with '(degrees)', 'ratio' for the one with 'ratio', 'm' for those
\* with '(m)', '' for the others and for no description.
GetUnits(k) ==
    IF k \notin DOMAIN ParamDescription THEN ""
    ELSE IF k = "SKEW" THEN "degrees"
    ELSE IF k = "BATTR" THEN "ratio"
    ELSE IF k \in {"NSPAN", "SCALE1", "SCALE2"} THEN ""
    ELSE "m"
\* One row of the exported table (lines 261-270): config is {} for a name
\* parameter_definitions does not hold, and every .get falls back on ''.
ExportRow(k, v) ==
    LET defined == k \in DOMAIN ParamDescription IN
    [Parameter |-> k,
     Value |-> v,
     Description |-> IF defined THEN ParamDescription[k] ELSE "",
     Type |-> IF ~defined THEN "" ELSE IF k = "NSPAN" THEN "int" ELSE "float",
     Min |-> IF defined THEN <<ParamMin[k]>> ELSE <<>>,
     Max |-> IF defined THEN <<ParamMax[k]>> ELSE <<>>,
     Units |-> GetUnits(k)]
\* The table: one row for each item of params.
ExportTable(p) == [k \in DOMAIN p |-> ExportRow(k, p[k])]

\* param_manager.export_parameters(params, filename) (lines 256-286): None
\* has no items(), the handler logs and raises again; else the table goes to
\* the named file (the call returns None) or comes back as the bytes of a
\* workbook.
ExportParameters ==
    /\ eval.fn = "none" /\ eval.args.for = "export_parameters"
    /\ IF eval.args.none
       THEN /\ eval' = [eval EXCEPT !.fn = "export_parameters",
                                    !.out = [raised |-> "AttributeError"]]
            /\ log' = log \o <<LogRec("error", "export_parameters")>>
       ELSE /\ eval' = [eval EXCEPT
                          !.fn = "export_parameters",
                          !.out = [raised |-> "none",
                                   returns |-> IF eval.args.filename
                                               THEN "None" ELSE "bytes",
                                   sheet |-> ExportTable(eval.args.p)]]
            /\ UNCHANGED log
    /\ UNCHANGED <<pc, params, options, faults, layers, styles, dimstyles, msp,
                   outcome, error, dxf, saves, i, scale_factor, finished, calls,
                   prev, given, docs, entry, uploaded_file, session_parameters,
                   edited_df>>

NextFunctions ==
    \/ EvalHpos
    \/ EvalVpos
    \/ EvalPlanOutline
    \/ DrawGrid
    \/ GetDrawingInfo
    \/ ExportParameters

SpecFunctions == InitFunctions /\ [][NextFunctions]_vars

\* ------------------------------------------------------ claim vocabulary
Terminal == pc \in {"done", "failed"}

\* Number of entities of the model space that builder b appended.
CountBy(b) == Cardinality({k \in 1 .. Len(msp) : msp[k].by = b})

\* Every parameter the builders read is a finite number.
AllNumeric(p) == \A k \in DOMAIN InlineDefaults : IsNum(Param(p, k))

Max0(n) == IF n > 0 THEN n ELSE 0

\* The entity counts of a document in which every enabled builder ran through.
DocumentComplete ==
    LET n == NSpan(params) IN
    /\ CountBy("deck") = 2 * Max0(n)
    /\ CountBy("piers") = 4 * Max0(n - 1)
    /\ CountBy("abutments") = 4
    /\ CountBy("approach") = 2
    /\ CountBy("plan_outline") = 1
    /\ CountBy("plan_centerline") = 1
    /\ CountBy("plan_piers") = 2 * Max0(n - 1)
    /\ CountBy("dimensions") = (IF options.include_dimensions THEN Max0(n) + 2 ELSE 0)
    /\ CountBy("title_block") = (IF options.include_title_block THEN 6 ELSE 0)
    /\ CountBy("view_labels") = (IF options.include_annotations THEN 4 ELSE 0)

\* C1: with no library call failing and every parameter numeric, a call that
\* returns normally returns a document in which every enabled builder has
\* appended all of its entities.
C1_CompleteOrRaised ==
    (outcome = "returned" /\ faults = {} /\ AllNumeric(params)) => DocumentComplete

\* C2: with more than one span and a negative pier height CAPB - FUTRL - FUTD
\* the call ends raised and hands no document back.
C2_NegativePierHeightRaises ==
    (Terminal /\ AllNumeric(params) /\ NSpan(params) > 1
        /\ ~IsZero(Param(params, "BATTR")) /\ Less(PierHeight(params), R(0)))
    => (outcome = "raised" /\ dxf = NoContent)

\* C3: with more than one span and BATTR = 0 no pier entity is ever appended
\* and the call ends raised.
C3_ZeroBatterRejected ==
    (AllNumeric(params) /\ NSpan(params) > 1 /\ IsZero(Param(params, "BATTR")))
    => (CountBy("piers") = 0 /\ (Terminal => outcome = "raised"))

\* C4: with a negative span count the call ends raised.
C4_NegativeSpanCountRaises ==
    (Terminal /\ AllNumeric(params) /\ NSpan(params) < 0) => outcome = "raised"

\* C5: with a malformed options['scale'] no entity is ever appended and the
\* call ends raised.
C5_MalformedScaleRejected ==
    ("scale" \in DOMAIN options /\ options.scale \in MalformedScales)
    => (msp = <<>> /\ (Terminal => outcome = "raised"))

\* Position of each builder's entities in the fixed stage order.
StageRank ==
    [deck |-> 1, piers |-> 2, abutments |-> 3, approach |-> 4,
     plan_outline |-> 5, plan_centerline |-> 6, plan_piers |-> 7,
     dimensions |-> 8, title_block |-> 9, view_labels |-> 10]

\* C6: in the model space no entity of a later stage precedes an entity of an
\* earlier stage (deck, piers, abutments, approach slabs, plan outline, plan
\* centerline, plan pier markers, dimensions, title block, view labels).
C6_StageOrder ==
    \A j, k \in 1 .. Len(msp) :
        j < k => StageRank[msp[j].by] <= StageRank[msp[k].by]

\* C6 witness: a finished call whose document holds entities of all ten stages.
C6_AllStagesDrawn ==
    /\ pc = "done"
    /\ \A b \in DOMAIN StageRank : CountBy(b) > 0

\* The builders generate_complete_bridge_dxf calls for these options.
EnabledBuilders(o) ==
    {st \in {"elevation", "plan", "dimensions", "title_block", "view_labels"} :
        StageEnabled(st, o)}

\* C7: the document is serialized at most once per call; when it has been,
\* every enabled builder has returned, no exception has left a builder, the
\* call is at its return and the serialized entities are the model space (no
\* entity is appended afterwards); a raised call has serialized nothing.
C7_SerializedOnceWhenComplete ==
    /\ saves <= 1
    /\ saves = 1 =>
          /\ pc \in {"return", "done"}
          /\ error = "none"
          /\ EnabledBuilders(options) \subseteq finished
          /\ dxf.entities = msp
    /\ outcome = "raised" => (saves = 0 /\ dxf = NoContent)
    /\ outcome = "returned" => saves = 1

\* C7 witness: a returned call that serialized a document with dimensions,
\* title block and view labels.
C7_SavedAfterAllBuilders ==
    /\ pc = "done"
    /\ saves = 1
    /\ CountBy("dimensions") > 0
    /\ CountBy("title_block") > 0
    /\ CountBy("view_labels") > 0

\* The dimension calls that fail in this call.
DimFaultSites ==
    {"span_dim_add", "span_dim_render", "deck_dim_add", "deck_dim_render",
     "abut_dim_add", "abut_dim_render"}
DimFaultsHit ==
    {f \in faults : f.site \in DimFaultSites
                    /\ (f.site \in LoopFaultSites => f.idx < NSpan(params))}
\* The dimensions that never reach the model space: add_linear_dim raised.
DimsNotAdded ==
    {f \in DimFaultsHit : f.site \in {"span_dim_add", "deck_dim_add", "abut_dim_add"}}

\* C8: in a finished call in which dimension calls failed, every other
\* dimension is in the document, and the title block and the view labels are
\* in it in full unless their own calls failed.
C8_DimensionFailureAbsorbed ==
    (pc = "done" /\ options.include_dimensions /\ DimFaultsHit # {}
        /\ AllNumeric(params))
    => /\ CountBy("dimensions") >=
              Max0(NSpan(params)) + 2 - Cardinality(DimsNotAdded)
       /\ \A n \in 0 .. (NSpan(params) - 1) :
              (~Fails(faults, "span_dim_add", n) /\ ~Fails(faults, "span_dim_render", n))
              => \E k \in 1 .. Len(msp) :
                     msp[k] = Render(SpanDimensionEntities(params, n, {})[1])
       /\ (options.include_title_block /\ ~Fails(faults, "title_block", 0))
              => CountBy("title_block") = 6
       /\ (options.include_annotations /\ ~Fails(faults, "view_labels", 0)
              /\ ~Fails(faults, "north_arrow", 0))
              => CountBy("view_labels") = 4

\* C8 witness: a finished call of a two-span bridge whose first span dimension
\* failed, with the second one, the title block and the view labels drawn.
C8_FirstSpanDimensionFailed ==
    /\ pc = "done"
    /\ NSpan(params) >= 2
    /\ Fails(faults, "span_dim_add", 0)
    /\ CountBy("dimensions") = NSpan(params) + 1
    /\ CountBy("title_block") = 6
    /\ CountBy("view_labels") = 4

\* The build report of a returned value, if it carries one.
Report(v) == IF "report" \in DOMAIN v THEN v.report ELSE <<>>
\* The sub-features skipped after an exception: one log record each.
Skips ==
    SelectSeq(log, LAMBDA r : r.feature \notin
                  {"generate", "app_generate", "validation_warnings",
                   "validate_parameters", "load_parameters",
                   "file_processing"})

\* C9: the value returned to the caller records every skipped sub-feature
\* (stated for parameter sets with at least one span and numeric values).
C9_ReportReturned ==
    (outcome = "returned" /\ AllNumeric(params) /\ NSpan(params) >= 1)
    => Len(Report(dxf)) = Len(Skips)

\* An entity with the scale text of the title block blanked.
MaskScale(e) ==
    IF e.kind = "TEXT" /\ e.by = "title_block" /\ e.text[1] = "Scale: "
    THEN [e EXCEPT !.text = <<"Scale: ">>] ELSE e
Masked(ents) == [k \in 1 .. Len(ents) |-> MaskScale(ents[k])]

\* C10: once the scale parameters are set, every builder computes with the
\* ratio 100/50; the title block shows options['scale'] verbatim; and a second
\* call that differs only in a well-formed scale string and in SCALE1/SCALE2
\* ends like the first with the same entities, the scale text apart.
C10_ScaleDecoupled ==
    /\ pc \notin {"load", "validate", "press", "stopped", "call", "create",
               "parse", "update"} =>
          /\ ScaleOf(params) = Rat(100, 50)
          /\ \A k \in 1 .. Len(msp) :
                 MaskScale(msp[k]) # msp[k]
                 => msp[k].text = <<"Scale: ">> \o options.scale
    /\ (calls = 2 /\ Terminal) =>
          /\ outcome = prev.outcome
          /\ Masked(msp) = Masked(prev.msp)

\* C10 witness: a second call has finished with a document that differs from
\* the first call's document (in the scale text alone, by C10).
C10_SecondCallDiffers ==
    /\ calls = 2
    /\ pc = "done"
    /\ msp # prev.msp
    /\ CountBy("piers") > 0

\* C11: when the call has returned or raised, the caller's parameter dict
\* holds exactly the keys and values it held when it was handed to the call
\* (stated for numeric parameter sets with a span and a drawable pier).
C11_ParamsUnchanged ==
    (Terminal /\ AllNumeric(given) /\ NSpan(given) >= 1
        /\ ~IsZero(Param(given, "BATTR")) /\ ~Less(PierHeight(given), R(0)))
    => params = given

\* C12: a request from the application that ran generate_complete_bridge_dxf
\* to its end has constructed exactly one document.
C12_OneDocumentPerRequest == (entry = "app" /\ Terminal) => docs = 1

IsPrefix(s, t) == Len(s) <= Len(t) /\ SubSeq(t, 1, Len(s)) = s

\* C13: in every step of a generation run the model space before the step is
\* a prefix of the model space after it: entities are only appended, none is
\* removed, reordered or edited.
C13_AppendOnly == [][IsPrefix(msp, msp')]_vars

\* The fixed layer and style names of the document model.
FixedLayers ==
    {"STRUCTURE", "DIMENSIONS", "ANNOTATIONS", "CENTERLINES", "HATCHING",
     "DETAILS", "GRID"}
FixedStyles == {"MAIN_TEXT", "TITLE_TEXT"}
Occurrences(seq, x) == Cardinality({k \in 1 .. Len(seq) : seq[k] = x})
Range(seq) == {seq[k] : k \in 1 .. Len(seq)}
\* The drawer of this call has been constructed.
DocumentCreated ==
    pc \notin {"load", "validate", "press", "stopped", "call", "create"}

\* C14: once the document is created its layer table holds each of the seven
\* layers exactly once and its style table each of the two text styles
\* exactly once; every entity is on one of those layers, which is in the
\* table, and every text entity has one of those styles, which is in the table.
C14_FixedLayersAndStyles ==
    /\ DocumentCreated =>
          /\ \A l \in FixedLayers : Occurrences(layers, l) = 1
          /\ \A t \in FixedStyles : Occurrences(styles, t) = 1
    /\ \A k \in 1 .. Len(msp) :
          /\ msp[k].layer \in FixedLayers \cap Range(layers)
          /\ msp[k].kind = "TEXT" => msp[k].style \in FixedStyles \cap Range(styles)

\* C14 witness: a finished document with entities on the five layers the
\* builders draw on and texts in both styles.
C14_LayersAndStylesInUse ==
    /\ pc = "done"
    /\ {msp[k].layer : k \in 1 .. Len(msp)} =
          {"STRUCTURE", "DIMENSIONS", "ANNOTATIONS", "CENTERLINES", "HATCHING"}
    /\ {msp[k].style : k \in {j \in 1 .. Len(msp) : msp[j].kind = "TEXT"}} =
          FixedStyles

\* ------------------------------------------------- geometry vocabulary
\* The entities builder b appended, in order.
EntitiesBy(b) == SelectSeq(msp, LAMBDA e : e.by = b)
Xs(e) == {e.pts[k][1] : k \in 1 .. Len(e.pts)}
Ys(e) == {e.pts[k][2] : k \in 1 .. Len(e.pts)}
MinOf(S) == CHOOSE x \in S : \A y \in S : ~Less(y, x)
MaxOf(S) == CHOOSE x \in S : \A y \in S : ~Less(x, y)
Left(e) == MinOf(Xs(e))
Right(e) == MaxOf(Xs(e))
Bottom(e) == MinOf(Ys(e))
Top(e) == MaxOf(Ys(e))
\* A closed polyline through exactly the four corners of its bounding box.
IsRectangle(e) ==
    /\ e.kind = "LWPOLYLINE"
    /\ e.closed \/ e.pts[1] = e.pts[Len(e.pts)]
    /\ Range(e.pts) = {<<x, y>> : x \in {Left(e), Right(e)}, y \in {Bottom(e), Top(e)}}
\* Drawing x of a chainage and drawing y of a level, at the scale in force.
DrawX(c) == Mul(c, ScaleOf(params))
DrawY(l) == Mul(Sub(l, Param(params, "DATUM")), ScaleOf(params))
\* Chainage of the boundary after span i: ABTL + i * SPAN1.
Boundary(k) == Add(Param(params, "ABTL"), Mul(R(k), Param(params, "SPAN1")))

\* Control has left the deck loop, the pier builder, the abutment builder.
AfterDeck ==
    {"piers_begin", "piers", "abutments", "approach", "plan", "plan_centerline",
     "plan_piers", "dimensions", "span_dims", "span_dim_render", "deck_dim",
     "deck_dim_render", "abut_dim", "abut_dim_render",
     "title_block", "view_labels", "save", "return", "done"}
AfterPiers == AfterDeck \ {"piers_begin", "piers"}
AfterAbutments == AfterPiers \ {"abutments"}
\* No library call of the deck loop fails in this call.
DeckFaultFree ==
    \A f \in faults : f.site \notin {"deck_outline", "hatch_add", "hatch_path", "hatch_fill"}

\* C15: for NSPAN >= 0, when no library call of the deck loop fails, the deck
\* builder appends exactly NSPAN segments: for each i in [0, NSPAN) a closed
\* rectangular polyline on STRUCTURE over chainage [ABTL + i*SPAN1,
\* ABTL + (i+1)*SPAN1] and levels [RTL - DECKT, RTL], followed by a hatch on
\* HATCHING with the same boundary.
C15_DeckSegments ==
    (pc \in AfterDeck /\ DeckFaultFree /\ NSpan(params) >= 0) =>
        LET d == EntitiesBy("deck") IN
        /\ Len(d) = 2 * NSpan(params)
        /\ \A n \in 0 .. (NSpan(params) - 1) :
              LET poly == d[2 * n + 1]
                  hatch == d[2 * n + 2]
              IN  /\ IsRectangle(poly) /\ poly.closed
                  /\ poly.layer = "STRUCTURE"
                  /\ Left(poly) = DrawX(Boundary(n))
                  /\ Right(poly) = DrawX(Boundary(n + 1))
                  /\ Bottom(poly) = DrawY(Sub(Param(params, "RTL"),
                                              Param(params, "DECKT")))
                  /\ Top(poly) = DrawY(Param(params, "RTL"))
                  /\ hatch.kind = "HATCH" /\ hatch.layer = "HATCHING"
                  /\ hatch.complete /\ hatch.pts = poly.pts

\* C15 witness: NSPAN = 3, SPAN1 = 30, ABTL = 0 drawn to the end; the third
\* segment ends at chainage 90 (drawing x 180).
C15_ThreeSpansDrawn ==
    /\ pc = "done"
    /\ NSpan(params) = 3
    /\ Param(params, "SPAN1") = R(30)
    /\ Param(params, "ABTL") = R(0)
    /\ CountBy("deck") = 6
    /\ Right(EntitiesBy("deck")[5]) = R(180)

\* The deck outlines in the order they were appended.
DeckOutlines ==
    SelectSeq(msp, LAMBDA e : e.by = "deck" /\ e.kind = "LWPOLYLINE")

\* C16: the right x of each deck segment is the left x of the next, and for
\* SPAN1 > 0 no two segments overlap in more than an edge.
C16_DeckContiguous ==
    LET d == DeckOutlines IN
    /\ \A j \in 1 .. (Len(d) - 1) : Right(d[j]) = Left(d[j + 1])
    /\ Less(R(0), Param(params, "SPAN1")) =>
          \A j, k \in 1 .. Len(d) :
              j # k => \/ ~Less(Left(d[k]), Right(d[j]))
                       \/ ~Less(Left(d[j]), Right(d[k]))

\* C16 witness: three segments of a bridge with 20 m spans from chainage 10.
C16_ThreeSegmentsInARow ==
    /\ pc = "done"
    /\ Len(DeckOutlines) = 3
    /\ Param(params, "SPAN1") = R(20)
    /\ Param(params, "ABTL") = R(10)

\* The pier parameters are finite numbers and the batter is not zero.
PierInputOk ==
    /\ ReadsOk(params, PierKeys)
    /\ \A k \in PierKeys \cup {"SCALE1", "SCALE2"} : IsNum(Param(params, k))
    /\ ~IsZero(Param(params, "BATTR"))
\* Twice the centre x of an entity's horizontal extent.
TwiceMidX(e) == Add(Left(e), Right(e))

\* C17: with NSPAN <= 1 no pier entity is ever appended, in the elevation or
\* in the plan (no marker, no 'P' label); with NSPAN > 1 (numeric pier
\* parameters, BATTR # 0) the pier builder appends exactly NSPAN - 1 piers
\* (cap, two shaft lines, footing), pier i centred at chainage ABTL + i*SPAN1,
\* i = 1 .. NSPAN-1, none at an abutment chainage, and the plan holds one
\* marker and one label for each.
C17_PiersAtInteriorBoundaries ==
    LET n == NSpan(params)
        e == EntitiesBy("piers")
    IN
    /\ (IsNum(Param(params, "NSPAN")) /\ n <= 1) =>
          /\ CountBy("piers") = 0
          /\ CountBy("plan_piers") = 0
          /\ \A k \in 1 .. Len(msp) :
                 msp[k].kind = "TEXT" => msp[k].text[1] # "P"
    /\ (pc \in AfterPiers /\ n > 1 /\ PierInputOk) =>
          /\ Len(e) = 4 * (n - 1)
          /\ \A j \in 1 .. (n - 1) :
                /\ TwiceMidX(e[4 * j - 3]) = Mul(Two, DrawX(Boundary(j)))
                /\ Add(e[4 * j - 2].pts[1][1], e[4 * j - 1].pts[1][1])
                       = Mul(Two, DrawX(Boundary(j)))
                /\ TwiceMidX(e[4 * j]) = Mul(Two, DrawX(Boundary(j)))
                /\ Less(R(0), Param(params, "SPAN1")) =>
                       /\ TwiceMidX(e[4 * j - 3]) # Mul(Two, DrawX(Boundary(0)))
                       /\ TwiceMidX(e[4 * j - 3]) # Mul(Two, DrawX(Boundary(n)))
    /\ (pc = "done" /\ n > 1 /\ AllNumeric(params)) =>
          CountBy("plan_piers") = 2 * (n - 1)

\* C17 witness: a finished three-span bridge from chainage 10 with its two
\* piers in the elevation and two markers with labels in the plan.
C17_TwoPiersDrawn ==
    /\ pc = "done"
    /\ NSpan(params) = 3
    /\ Param(params, "ABTL") = R(10)
    /\ CountBy("piers") = 8
    /\ CountBy("plan_piers") = 4

\* Right end of the deck: ABTL + NSPAN * SPAN1.
RightEnd == Boundary(NSpan(params))

\* C18: the abutment builder appends exactly two abutments, stem then footing:
\* the left stem ends at chainage ABTL, the right stem starts at chainage
\* ABTL + NSPAN*SPAN1 (whatever LBRIDGE is); each stem is ABUT_WIDTH wide over
\* levels [RTL - ABUT_HEIGHT, RTL]; each footing is FOOT_LENGTH long and
\* FOOT_THICK thick, its top is the stem's bottom and its horizontal midpoint
\* is the stem's.
C18_TwoAbutments ==
    (pc \in AfterAbutments /\ AllNumeric(params)) =>
        LET a == EntitiesBy("abutments")
            sc == ScaleOf(params)
        IN
        /\ Len(a) = 4
        /\ \A k \in 1 .. 4 : IsRectangle(a[k]) /\ a[k].layer = "STRUCTURE"
        /\ Right(a[1]) = DrawX(Param(params, "ABTL"))
        /\ Left(a[3]) = DrawX(RightEnd)
        /\ \A k \in {1, 3} :
              /\ Sub(Right(a[k]), Left(a[k])) = Mul(Param(params, "ABUT_WIDTH"), sc)
              /\ Top(a[k]) = DrawY(Param(params, "RTL"))
              /\ Bottom(a[k]) = DrawY(Sub(Param(params, "RTL"),
                                          Param(params, "ABUT_HEIGHT")))
              /\ Sub(Right(a[k + 1]), Left(a[k + 1]))
                     = Mul(Param(params, "FOOT_LENGTH"), sc)
              /\ Sub(Top(a[k + 1]), Bottom(a[k + 1]))
                     = Mul(Param(params, "FOOT_THICK"), sc)
              /\ Top(a[k + 1]) = Bottom(a[k])
              /\ TwiceMidX(a[k + 1]) = TwiceMidX(a[k])

\* C18 witness: a finished bridge from chainage 10 whose LBRIDGE disagrees
\* with its spans; the right stem starts at the span-derived end.
C18_RightAbutmentAtSpanEnd ==
    /\ pc = "done"
    /\ NSpan(params) = 2
    /\ Param(params, "ABTL") = R(10)
    /\ Param(params, "LBRIDGE") = R(100)
    /\ Left(EntitiesBy("abutments")[3]) # DrawX(Param(params, "LBRIDGE"))

\* C19: the approach slab builder appends exactly two rectangles on STRUCTURE
\* over levels [RTL - APPR_THICK, RTL], the left over chainage
\* [ABTL - APPR_LENGTH, ABTL], the right over [ABTL + NSPAN*SPAN1,
\* ABTL + NSPAN*SPAN1 + APPR_LENGTH].
C19_TwoApproachSlabs ==
    ("elevation" \in finished /\ AllNumeric(params)) =>
        LET a == EntitiesBy("approach")
            len == Param(params, "APPR_LENGTH")
        IN
        /\ Len(a) = 2
        /\ \A k \in 1 .. 2 :
              /\ IsRectangle(a[k]) /\ a[k].layer = "STRUCTURE"
              /\ Top(a[k]) = DrawY(Param(params, "RTL"))
              /\ Bottom(a[k]) = DrawY(Sub(Param(params, "RTL"),
                                          Param(params, "APPR_THICK")))
        /\ Left(a[1]) = DrawX(Sub(Param(params, "ABTL"), len))
        /\ Right(a[1]) = DrawX(Param(params, "ABTL"))
        /\ Left(a[2]) = DrawX(RightEnd)
        /\ Right(a[2]) = DrawX(Add(RightEnd, len))

\* C19 witness: a finished three-span bridge whose LBRIDGE disagrees with its
\* spans; the right slab starts at the span-derived end.
C19_RightSlabAtSpanEnd ==
    /\ pc = "done"
    /\ NSpan(params) = 3
    /\ Param(params, "LBRIDGE") = R(100)
    /\ CountBy("approach") = 2
    /\ Left(EntitiesBy("approach")[2]) # DrawX(Param(params, "LBRIDGE"))

\* C20: for SKEW = 0 (and LBRIDGE >= 0) the plan outline is an axis-aligned
\* rectangle LBRIDGE * scale long and BRIDGEW * scale wide whose bottom and
\* top edges are equally far from y = -100.
C20_SquarePlanOutline ==
    (CountBy("plan_outline") = 1 /\ IsZero(Param(params, "SKEW"))
        /\ ~Less(Param(params, "LBRIDGE"), R(0))) =>
        LET o == EntitiesBy("plan_outline")[1] IN
        /\ IsRectangle(o)
        /\ Sub(Right(o), Left(o)) = Mul(Param(params, "LBRIDGE"), ScaleOf(params))
        /\ Sub(Top(o), Bottom(o)) = Mul(Param(params, "BRIDGEW"), ScaleOf(params))
        /\ Add(Top(o), Bottom(o)) = Mul(Two, R(-100))

\* C20 witness: a finished square bridge with LBRIDGE = 100 and 20 m spans;
\* the outline is 200 long.
C20_SquareOutlineDrawn ==
    /\ pc = "done"
    /\ IsZero(Param(params, "SKEW"))
    /\ Param(params, "LBRIDGE") = R(100)
    /\ Param(params, "SPAN1") = R(20)
    /\ Sub(Right(EntitiesBy("plan_outline")[1]), Left(EntitiesBy("plan_outline")[1]))
           = R(200)

\* C21: for SKEW > 0 the plan outline is a closed four-point parallelogram:
\* its two long edges run from the near (left) end to the far (right) end
\* over the same horizontal span, LBRIDGE in drawing units, and each rises by
\* BRIDGEW * tan(SKEW) in drawing units (real-world lengths times the scale),
\* so the far edge stands that much higher than the near edge.
C21_SkewedPlanOutline ==
    (CountBy("plan_outline") = 1 /\ Less(R(0), Param(params, "SKEW"))) =>
        LET o == EntitiesBy("plan_outline")[1]
            sc == ScaleOf(params)
            rise == Mul(Mul(Param(params, "BRIDGEW"),
                            TanDeg(Param(params, "SKEW"))), sc)
        IN
        /\ o.kind = "LWPOLYLINE" /\ o.closed /\ Len(o.pts) = 4
        /\ o.pts[1][1] = o.pts[4][1]
        /\ o.pts[2][1] = o.pts[3][1]
        /\ Sub(o.pts[2][1], o.pts[1][1]) = Mul(Param(params, "LBRIDGE"), sc)
        /\ Sub(o.pts[3][1], o.pts[4][1]) = Mul(Param(params, "LBRIDGE"), sc)
        /\ Sub(o.pts[2][2], o.pts[1][2]) = rise
        /\ Sub(o.pts[3][2], o.pts[4][2]) = rise
        /\ Sub(o.pts[4][2], o.pts[1][2]) = Mul(Param(params, "BRIDGEW"), sc)
        /\ Sub(o.pts[3][2], o.pts[2][2]) = Mul(Param(params, "BRIDGEW"), sc)

\* C21 witness: a finished bridge with 30 degrees of skew whose outline's far
\* edge stands higher than its near edge.
C21_SkewedOutlineDrawn ==
    /\ pc = "done"
    /\ Param(params, "SKEW") = R(30)
    /\ CountBy("plan_outline") = 1
    /\ Less(EntitiesBy("plan_outline")[1].pts[1][2],
            EntitiesBy("plan_outline")[1].pts[2][2])

\* Half the distance between the two shaft lines of pier j, at their first
\* (cap) ends and at their second (footing) ends.
ShaftTopHalf(j) ==
    Half(Sub(EntitiesBy("piers")[4 * j - 1].pts[1][1],
             EntitiesBy("piers")[4 * j - 2].pts[1][1]))
ShaftBottomHalf(j) ==
    Half(Sub(EntitiesBy("piers")[4 * j - 1].pts[2][1],
             EntitiesBy("piers")[4 * j - 2].pts[2][1]))
\* Piers drawn so far (cap, two shaft lines, footing each).
PiersDrawn == Len(EntitiesBy("piers")) \div 4

\* C22: for every pier drawn (finite pier parameters, BATTR # 0) the shaft's
\* top half-width is PIERTW * scale / 2 and its bottom half-width is the top
\* half-width plus (CAPB - FUTRL - FUTD) / BATTR; with a non-negative pier
\* height and BATTR > 0 the bottom is at least as wide as the top.
C22_ShaftBatter ==
    (PierInputOk /\ NSpan(params) > 1) =>
        \A j \in 1 .. PiersDrawn :
            /\ ShaftTopHalf(j) =
                   Div(Mul(Param(params, "PIERTW"), ScaleOf(params)), Two)
            /\ ShaftBottomHalf(j) =
                   Add(ShaftTopHalf(j),
                       Div(Sub(Sub(Param(params, "CAPB"), Param(params, "FUTRL")),
                               Param(params, "FUTD")),
                           Param(params, "BATTR")))
            /\ (~Less(Sub(Sub(Param(params, "CAPB"), Param(params, "FUTRL")),
                          Param(params, "FUTD")), R(0))
                  /\ Less(R(0), Param(params, "BATTR")))
               => ~Less(ShaftBottomHalf(j), ShaftTopHalf(j))

\* C22 witness: a finished bridge with pier height 3 and batter 6: the shaft
\* is 4/5 wide (half) at the cap and 13/10 at the footing.
C22_BatteredShaftDrawn ==
    /\ pc = "done"
    /\ PiersDrawn >= 1
    /\ ShaftTopHalf(1) = Rat(4, 5)
    /\ ShaftBottomHalf(1) = Rat(13, 10)

\* C23: hpos(c) = c * scale, additive and homogeneous in c, zero at 0 and the
\* same for every 'left'; vpos(l) = (l - datum) * scale, zero at the datum,
\* and it changes by d * scale when the level changes by d (k times that for
\* k * d): a straight line in the level.  Both yield a value for every
\* argument tried.
C23_TransformsLinear ==
    LET a == eval.args
        o == eval.out
    IN
    /\ eval.fn = "hpos" =>
          /\ IsNum(o.at_c)
          /\ o.at_c = Mul(a.c, a.scale)
          /\ o.at_sum = Add(o.at_c, o.at_d)
          /\ o.at_kc = Mul(a.k, o.at_c)
          /\ o.at_zero = R(0)
          /\ o.other_left = o.at_c
    /\ eval.fn = "vpos" =>
          /\ IsNum(o.at_l)
          /\ o.at_l = Mul(Sub(a.level, a.datum), a.scale)
          /\ Sub(o.at_step, o.at_l) = Mul(a.d, a.scale)
          /\ Sub(o.at_ksteps, o.at_l) = Mul(a.k, Sub(o.at_step, o.at_l))
          /\ o.at_datum = R(0)

\* C23 witness: hpos evaluated at a non-zero chainage with two different
\* values of 'left' and a scale other than 1.
C23_HposEvaluated ==
    /\ eval.fn = "hpos"
    /\ eval.args.c = Rat(7, 2)
    /\ eval.args.left # eval.args.other
    /\ eval.out.at_c = Rat(7, 4)

\* The rise of the outline's far end above its near end at skew angle k.
FarEdgeRise(k) == Sub(eval.out.outline[k][2][2], eval.out.outline[k][1][2])

\* C29: the corner list of the skewed branch with skew offset 0 is the list
\* of the first four points of the square branch, and (BRIDGEW >= 0) the rise
\* of the far edge does not decrease as SKEW grows over 0, 15, 30, 45 degrees.
C29_SkewReducesToSquare ==
    (eval.fn = "plan_outline" /\ ~Less(Param(eval.args.p, "BRIDGEW"), R(0))) =>
        /\ eval.out.sheared0 = SubSeq(eval.out.outline[R(0)], 1, 4)
        /\ \A k1, k2 \in SkewAngles :
               ~Less(k2, k1) => ~Less(FarEdgeRise(k2), FarEdgeRise(k1))

\* C29 witness: the outlines of one parameter set evaluated for every angle,
\* with no rise at 0 degrees and a strictly growing rise after it.
C29_OutlinesEvaluated ==
    /\ eval.fn = "plan_outline"
    /\ FarEdgeRise(R(0)) = R(0)
    /\ Less(FarEdgeRise(R(15)), FarEdgeRise(R(30)))
    /\ Less(FarEdgeRise(R(30)), FarEdgeRise(R(45)))

\* The optional builders and the option each one is guarded by.
OptionalStages == {"dimensions", "title_block", "view_labels"}
ToggleOn(st, o) ==
    CASE st = "dimensions" -> o.include_dimensions
      [] st = "title_block" -> o.include_title_block
      [] st = "view_labels" -> o.include_annotations
\* The entities of s that the stages in S did not append, in order.
EntitiesOfOthers(s, S) == SelectSeq(s, LAMBDA e : e.by \notin S)
\* The optional stages whose toggle differs between this call and the last.
ToggledStages ==
    {st \in OptionalStages : ToggleOn(st, options) # ToggleOn(st, prev.options)}

\* C24: a builder whose toggle is false appends no entity to the document,
\* and two returned calls that differ in toggles only hold the same entities
\* in the same order apart from those of the stages whose toggle differs.
C24_TogglesIndependent ==
    /\ DocumentCreated =>
          \A st \in OptionalStages : ~ToggleOn(st, options) => CountBy(st) = 0
    /\ (calls = 2 /\ pc = "done" /\ prev.outcome = "returned") =>
          EntitiesOfOthers(msp, ToggledStages)
              = EntitiesOfOthers(prev.msp, ToggledStages)

\* C24 witness: a returned call without dimensions after a returned call with
\* them, title block and view labels drawn in both.
C24_DimensionsSwitchedOff ==
    /\ calls = 2 /\ pc = "done" /\ prev.outcome = "returned"
    /\ ~options.include_dimensions /\ prev.options.include_dimensions
    /\ ToggledStages = {"dimensions"}
    /\ CountBy("dimensions") = 0
    /\ CountBy("title_block") > 0 /\ CountBy("view_labels") > 0
    /\ Len(prev.msp) > Len(msp)

\* LBRIDGE is the length the spans add up to, NSPAN * SPAN1.
LBridgeMatchesSpans ==
    Param(params, "LBRIDGE") = Mul(R(NSpan(params)), Param(params, "SPAN1"))

\* C25: in a generated document (numeric parameters, NSPAN >= 1, LBRIDGE equal
\* to NSPAN * SPAN1) the plan outline and the plan centerline start at the
\* drawing x of ABTL and end at the drawing x of ABTL + NSPAN * SPAN1, and the
\* centre of every plan pier marker lies within the outline's extent.
C25_PlanAlignedWithElevation ==
    (pc = "done" /\ AllNumeric(params) /\ NSpan(params) >= 1
        /\ LBridgeMatchesSpans
        /\ CountBy("plan_outline") = 1 /\ CountBy("plan_centerline") = 1) =>
        LET o == EntitiesBy("plan_outline")[1]
            c == EntitiesBy("plan_centerline")[1]
            m == EntitiesBy("plan_piers")
        IN
        /\ Left(o) = DrawX(Param(params, "ABTL")) /\ Right(o) = DrawX(RightEnd)
        /\ Left(c) = DrawX(Param(params, "ABTL")) /\ Right(c) = DrawX(RightEnd)
        /\ \A k \in 1 .. Len(m) :
               m[k].kind = "LWPOLYLINE" =>
                   /\ ~Less(TwiceMidX(m[k]), Mul(Two, Left(o)))
                   /\ ~Less(Mul(Two, Right(o)), TwiceMidX(m[k]))

\* No dimension call of the library fails in this call.
DimFaultFree == \A f \in faults : f.site \notin DimFaultSites

\* C26: with dimensions enabled (numeric parameters, NSPAN >= 1, LBRIDGE equal
\* to NSPAN * SPAN1, no library failure) the dimension builder appends NSPAN
\* span dimensions, span i from ABTL + i*SPAN1 to ABTL + (i+1)*SPAN1, then
\* two vertical dimensions, all on DIMENSIONS, the vertical ones at an x
\* strictly right of the drawing x of ABTL + NSPAN * SPAN1.
C26_DimensionsRightOfBridge ==
    (pc = "done" /\ options.include_dimensions /\ DimFaultFree
        /\ AllNumeric(params) /\ NSpan(params) >= 1 /\ LBridgeMatchesSpans) =>
        LET d == EntitiesBy("dimensions")
            n == NSpan(params)
        IN
        /\ Len(d) = n + 2
        /\ \A k \in 1 .. Len(d) : d[k].kind = "DIMENSION" /\ d[k].layer = "DIMENSIONS"
        /\ \A k \in 1 .. n :
               /\ d[k].pts[2][1] = DrawX(Boundary(k - 1))
               /\ d[k].pts[3][1] = DrawX(Boundary(k))
        /\ \A k \in (n + 1) .. (n + 2) :
               /\ d[k].pts[2][1] = d[k].pts[3][1]
               /\ Less(DrawX(RightEnd), d[k].pts[2][1])

\* C27: for NSPAN > 1 (numeric parameters) the finished plan holds, in
\* increasing chainage order, one marker rectangle per interior boundary
\* ABTL + j*SPAN1, j = 1 .. NSPAN-1, PIER_WIDTH * scale wide and
\* (BRIDGEW + 1) * scale long, centred on that chainage and on the plan axis
\* y = -100, each immediately followed by its label 'Pj' at the marker's centre.
C27_PlanPierMarkers ==
    ("plan" \in finished /\ AllNumeric(params) /\ NSpan(params) > 1) =>
        LET m == EntitiesBy("plan_piers")
            sc == ScaleOf(params)
        IN
        /\ Len(m) = 2 * (NSpan(params) - 1)
        /\ \A j \in 1 .. (NSpan(params) - 1) :
               LET r == m[2 * j - 1]
                   t == m[2 * j]
               IN
               /\ IsRectangle(r) /\ r.layer = "STRUCTURE"
               /\ TwiceMidX(r) = Mul(Two, DrawX(Boundary(j)))
               /\ Sub(Right(r), Left(r)) = Mul(Param(params, "PIER_WIDTH"), sc)
               /\ Sub(Top(r), Bottom(r))
                      = Mul(Add(Param(params, "BRIDGEW"), R(1)), sc)
               /\ Add(Top(r), Bottom(r)) = Mul(Two, R(PLAN_OFFSET_Y))
               /\ t.kind = "TEXT"
               /\ t.text = <<"P", ToString(j)>>
               /\ t.pts = <<Pt(DrawX(Boundary(j)), R(PLAN_OFFSET_Y))>>
        /\ \A k \in 1 .. Len(msp) :
               (msp[k].by = "plan_piers" /\ msp[k].kind = "LWPOLYLINE") =>
                   /\ k < Len(msp)
                   /\ msp[k + 1].by = "plan_piers" /\ msp[k + 1].kind = "TEXT"

\* C27 witness: a finished three-span bridge starting at chainage 10 whose
\* plan holds the markers P1 and P2, the second at drawing x (10 + 2*30)*2.
C27_TwoMarkersLabelled ==
    /\ pc = "done"
    /\ NSpan(params) = 3
    /\ Param(params, "ABTL") = R(10) /\ Param(params, "SPAN1") = R(30)
    /\ Len(EntitiesBy("plan_piers")) = 4
    /\ EntitiesBy("plan_piers")[2].text = <<"P", "1">>
    /\ EntitiesBy("plan_piers")[4].text = <<"P", "2">>
    /\ EntitiesBy("plan_piers")[4].pts[1][1] = R(140)

\* C28: every pier drawn (finite pier parameters, BATTR # 0) is, in order, a
\* cap rectangle centred on ABTL + j*SPAN1, CAPW wide over levels
\* [CAPB, CAPT]; two shaft lines from level CAPB to level FUTRL + FUTD, mirror
\* images of each other about the pier centre; a footing rectangle centred on
\* the same chainage, FUTW wide over levels [FUTRL, FUTRL + FUTD]; all four
\* on STRUCTURE.  Widths and levels are in drawing units.
C28_PierParts ==
    (PierInputOk /\ NSpan(params) > 1) =>
        \A j \in 1 .. PiersDrawn :
            LET e == EntitiesBy("piers")
                cap == e[4 * j - 3]
                l1 == e[4 * j - 2]
                l2 == e[4 * j - 1]
                f == e[4 * j]
                xc2 == Mul(Two, DrawX(Boundary(j)))
                sc == ScaleOf(params)
                foottop == Add(Param(params, "FUTRL"), Param(params, "FUTD"))
            IN
            /\ \A k \in (4 * j - 3) .. (4 * j) : e[k].layer = "STRUCTURE"
            /\ IsRectangle(cap)
            /\ TwiceMidX(cap) = xc2
            /\ Sub(Right(cap), Left(cap)) = Mul(Param(params, "CAPW"), sc)
            /\ Bottom(cap) = DrawY(Param(params, "CAPB"))
            /\ Top(cap) = DrawY(Param(params, "CAPT"))
            /\ l1.kind = "LINE" /\ l2.kind = "LINE"
            /\ l1.pts[1][2] = DrawY(Param(params, "CAPB"))
            /\ l2.pts[1][2] = DrawY(Param(params, "CAPB"))
            /\ l1.pts[2][2] = DrawY(foottop)
            /\ l2.pts[2][2] = DrawY(foottop)
            /\ Add(l1.pts[1][1], l2.pts[1][1]) = xc2
            /\ Add(l1.pts[2][1], l2.pts[2][1]) = xc2
            /\ IsRectangle(f)
            /\ TwiceMidX(f) = xc2
            /\ Sub(Right(f), Left(f)) = Mul(Param(params, "FUTW"), sc)
            /\ Bottom(f) = DrawY(Param(params, "FUTRL"))
            /\ Top(f) = DrawY(foottop)

\* C28 witness: a finished bridge with two piers; the second pier's cap is
\* 12/5 wide and its footing 5 wide in drawing units, the footing below the cap.
C28_TwoPiersInParts ==
    /\ pc = "done"
    /\ PiersDrawn = 2
    /\ Sub(Right(EntitiesBy("piers")[5]), Left(EntitiesBy("piers")[5])) = Rat(12, 5)
    /\ Sub(Right(EntitiesBy("piers")[8]), Left(EntitiesBy("piers")[8])) = R(5)
    /\ Less(Top(EntitiesBy("piers")[8]), Bottom(EntitiesBy("piers")[5]))

\* C30: a table that validate_parameters accepted, with NSPAN > 1, has a pier
\* height CAPB - FUTRL - FUTD that is not negative and a batter that is not 0.
C30_ValidatedPiersBuildable ==
    (entry = "app" /\ pc \notin {"load", "validate", "press", "stopped"}
        /\ Valid(given)
        /\ NSpan(given) > 1) =>
        /\ ~Less(PierHeight(given), R(0))
        /\ ~IsZero(Param(given, "BATTR"))

====
